---- MODULE Spec2Model ----
(***************************************************************************)
(* Model of the cutting engine of madcad/cut.py: the propagators cut_edge  *)
(* and cut_corner, the drivers cut_line, cut and chamfer, and the final    *)
(* face removal.                                                           *)
(*                                                                         *)
(* Geometry is kept by tolerance class.  For the cut plane of the pass a   *)
(* point p with signed distance d = dot(p - cutplane[0], cutplane[1]) is   *)
(*   "pos"  d > prec        "onp"  0 <= d <= prec                          *)
(*   "onn"  -prec <= d < 0  "neg"  d < -prec                               *)
(* and for a separator s with inward distance x (dot(p-s1[0], -s1[1]) for  *)
(* s1, dot(p-s2[0], s2[1]) for s2) it is                                   *)
(*   "in"   x >= prec   "edge"  -prec <= x < prec   "out"  x < -prec.      *)
(* These are exactly the comparisons the source makes.  Two points are     *)
(* within prec of each other iff they are the same location.               *)
(* List indices are 1-based here and 0-based in the source.                *)
(***************************************************************************)
EXTENDS Integers, Sequences, FiniteSets, TLC

VARIABLES
    points,         \* mesh.points: sequence of locations <<k,u,v>>
    faces,          \* mesh.faces: sequence of triples of point indices
    tracks,         \* mesh.tracks: group id per face
    conn,           \* connectivity map: directed edge -> face index
    side,           \* per point: class for the cut plane of the pass
    c1, c2,         \* per point: class for the separators s1, s2 of the pass
    xmemo,          \* location of a computed cut point -> <<class s1, class s2>>
    hasS1, hasS2,   \* whether s1, s2 are given (not None)
    degen,          \* face indices whose height is <= prec although the corners differ
    axial,          \* face indices whose inside the axis of the separator crosses
    line,           \* the polyline: sequence of point indices
    ei,             \* index of the polyline edge of the pass: (line[ei], line[ei+1])
    seen,           \* cut_edge: seen
    front,          \* cut_edge: front (a stack, top is the last element)
    intersections,  \* cut_edge: intersections
    removal,        \* the set the name `removal` of cut_edge is bound to
    corner,         \* cut_corner: point
    toremove,       \* cut_corner: toremove (face index -> point index or None)
    keptlog,        \* history: the face slots a split of the cut_corner pass took out of toremove
    splitlog,       \* history: <<slot split, slots appended>> of each split of the pass
    pc,             \* position of the pass
    op,             \* the operation that runs the passes
    agenda,         \* chamfer: the calls still to make
    passid,         \* number of the cut plane of the pass
    result,         \* cut_line: result (one group of segments per edge)
    merges,         \* cut_line: merges
    gi,             \* cut_line: index of the group to simplify next
    kept,           \* history: the former indices of the faces of the compacted list
    cutter,         \* the cutter argument of chamfer, bevel, beveltgt
    li,             \* chamfer: index of the polyline of the loop of lines 63-68
    corners,        \* chamfer: corners, the items <<point, value>> in insertion order
    contrib,        \* history: the <<point, value>> each polyline end gave to corners
    groups,         \* mesh.groups
    segments,       \* chamfer: segments
    nsuites,        \* bevel: len(suites(s)) for the segments s of each polyline edge
    ji,             \* bevel: index of the polyline edge of the junction loop
    tmatch,         \* bevel: the polyline edges whose curves are in tmatch
    reported,       \* bevel: the polyline edges for which the error was printed
    parallel,       \* separators: the i for which length(d) <= prec at line[i]
    sepsegments,    \* cut_line: segments, what separators() returned
    limits,         \* history: <<s1, s2>> of each polyline edge of cut_line
    caches,         \* io.caches: key -> <<date, data>> of the RAM record, or None
    cachefiles,     \* the cache folder: key -> <<mtime, data>> of the pickle file, or None
    usefile,        \* cached: the parameter file
    codedate,       \* what code_date gives for the wrapped function
    now,            \* what time() gives
    called,         \* history: the last call of the wrapper, or None
    alive,          \* the objects given to record() that are not collected
    dead,           \* the objects given to record() that are collected
    finals,         \* the weakref.finalize objects that are alive: <<object, key>>
    rec,            \* the call of record() that runs: <<step, key, data, previous>>
    latest          \* history: key -> the objects given to record() for key, in order

vars == <<points, faces, tracks, conn, side, c1, c2, xmemo, hasS1, hasS2,
          degen, axial, line, ei, seen, front, intersections, removal, corner, toremove, keptlog,
          splitlog, pc, op, agenda, passid, result, merges, gi, kept,
          cutter, li, corners, contrib, groups, segments, nsuites, ji, tmatch, reported,
          parallel, sepsegments, limits,
          caches, cachefiles, usefile, codedate, now, called,
          alive, dead, finals, rec, latest>>

\* the junction loop of bevel and beveltgt
bevelvars == <<nsuites, ji, tmatch, reported>>

\* the state of the user functions
\* the separators of cut_line
sepvars == <<parallel, sepsegments, limits>>

\* the caches of io.cached
cachevars == <<caches, cachefiles, usefile, codedate, now, called>>

\* the state of the registry of io.caches
regvars == <<alive, dead, finals, rec, latest>>

uservars == <<cutter, li, corners, contrib, groups, segments, bevelvars, sepvars, cachevars,
              regvars>>

drivervars == <<op, agenda, passid, result, merges, gi, kept, uservars>>

None == <<>>
\* None stored in toremove (line 517): point indices start at 1, so 0 is no point
NoPoint == 0

MaxFront == 60

(***************************************************************************)
(* Helpers on faces and edges                                              *)
(***************************************************************************)
At(f, j) == f[(j % 3) + 1]

FaceEdges(f) == << <<f[1], f[2]>>, <<f[2], f[3]>>, <<f[3], f[1]>> >>

FaceEdgeSet(f) == {FaceEdges(f)[n] : n \in 1..3}

RegisterEdges(cn, f, fi) ==
    [e \in DOMAIN cn \cup FaceEdgeSet(f) |->
        IF e \in FaceEdgeSet(f) THEN fi ELSE cn[e]]

UnregisterKeepsStale(cn, f) == cn

UnregisterEdges(cn, f) ==
    [e \in DOMAIN cn \ FaceEdgeSet(f) |-> cn[e]]

RECURSIVE connef(_, _)
connef(fs, n) ==
    IF n = 0 THEN << >>
    ELSE RegisterEdges(connef(fs, n - 1), fs[n], n)

PushUnreversed(fr, f) == fr \o FaceEdges(f)

PushReversed(fr, f) ==
    fr \o << <<At(f, 0), At(f, -1)>>, <<At(f, 1), At(f, 0)>>, <<At(f, 2), At(f, 1)>> >>

Pop(fr) == SubSeq(fr, 1, Len(fr) - 1)

Top(fr) == fr[Len(fr)]

(***************************************************************************)
(* Geometry by tolerance class                                             *)
(***************************************************************************)
Sides == {"pos", "onp", "onn", "neg"}

SepClasses == {"in", "edge", "out"}

OnPlane(s) == s \in {"onp", "onn"}

XLoc(k, a, b) == IF a < b THEN <<k, a, b>> ELSE <<k, b, a>>

Has(pts, loc) == \E i \in 1..Len(pts) : pts[i] = loc

IndexOf(pts, loc) == CHOOSE i \in 1..Len(pts) : pts[i] = loc

\* mesh.usepointat(p, prec): the index of the point within prec of p, created if there is none
usepointat(pts, loc) == IF Has(pts, loc) THEN IndexOf(pts, loc) ELSE Len(pts) + 1

usepointat_points(pts, loc) == IF Has(pts, loc) THEN pts ELSE Append(pts, loc)

\* intersection_edge_plane(cutplane, (points[a], points[b]), prec)
intersection_edge_plane(sd, pts, k, a, b) ==
    IF OnPlane(sd[a]) THEN pts[a]
    ELSE IF OnPlane(sd[b]) THEN pts[b]
    ELSE IF sd[a] = sd[b] THEN None
    ELSE XLoc(k, a, b)

\* distance(p, q) < prec
Close(p, q) == p = q

\* faceheight(mesh, fi) <= prec
EmptyFace(fs, dg, fi) ==
    \/ fi \in dg
    \/ Cardinality({fs[fi][1], fs[fi][2], fs[fi][3]}) < 3

\* intersection_axis_face called at lines 377-378: its result is dropped, p stays None
AxisPoint(f) == None

(***************************************************************************)
(* cut_edge: one action per outcome of one iteration of `while front`      *)
(***************************************************************************)
Edge == <<line[ei], line[ei + 1]>>

\* lines 420-424: the cut of each edge of the face, then the near-duplicates dropped in
\* the order j = 0, 1, 2 (cut[j] is compared with cut[j-1] as it stands at that time)
RawCuts(f, sd, pts, k) ==
    [j \in 0..2 |-> intersection_edge_plane(sd, pts, k, At(f, j), At(f, j + 1))]

DropAt(cut, j) ==
    IF cut[(j + 2) % 3] # None /\ cut[j] # None /\ Close(cut[(j + 2) % 3], cut[j])
    THEN [cut EXCEPT ![j] = None]
    ELSE cut

Cuts(f, sd, pts, k) == DropAt(DropAt(DropAt(RawCuts(f, sd, pts, k), 0), 1), 2)

\* the cut locations of this pass whose separator classes are not drawn yet
Unknown(cut, k, memo) ==
    {cut[j] : j \in {i \in 0..2 : cut[i] # None /\ cut[i][1] = k}} \ DOMAIN memo

\* whether a new cut point of [u,v] is "in" for a separator: it is if both ends are, it
\* is not if neither is, and it can be either if one is
InChoices(cu, cv) ==
    IF cu = "in" /\ cv = "in" THEN {"in"}
    ELSE IF cu # "in" /\ cv # "in" THEN {"out"}
    ELSE {"in", "out"}

MemoChoices(loc, h1, h2, k1, k2) ==
    (IF h1 THEN InChoices(k1[loc[2]], k1[loc[3]]) ELSE {"in"})
    \X (IF h2 THEN InChoices(k2[loc[2]], k2[loc[3]]) ELSE {"in"})

\* the class of a cut location: drawn if it is a cut point of this pass, else the class
\* of the mesh point it was snapped to
SepClass(loc, n, k, pts, kk, memo) ==
    IF loc[1] = k THEN memo[loc][n] ELSE kk[IndexOf(pts, loc)]

\* the draws still needed: those of the edges that have a face not seen yet
Needed(memo, cn, sn) ==
    [loc \in {x \in DOMAIN memo :
                \/ <<x[2], x[3]>> \in DOMAIN cn /\ cn[<<x[2], x[3]>>] \notin sn
                \/ <<x[3], x[2]>> \in DOMAIN cn /\ cn[<<x[3], x[2]>>] \notin sn}
        |-> memo[loc]]

\* lines 435-436: the segment (cut[j-1], cut[j]) is left out by s1 or by s2
Skipped(cut, j, pts, memo) ==
    \/ /\ hasS1
       /\ SepClass(cut[(j + 2) % 3], 1, passid, pts, c1, memo) # "in"
       /\ SepClass(cut[j], 1, passid, pts, c1, memo) # "in"
    \/ /\ hasS2
       /\ SepClass(cut[(j + 2) % 3], 2, passid, pts, c2, memo) # "in"
       /\ SepClass(cut[j], 2, passid, pts, c2, memo) # "in"

CutPair(cut, j) == cut[j] # None /\ cut[(j + 2) % 3] # None

SplitAt(cut, pts, memo) ==
    {j \in 0..2 : CutPair(cut, j) /\ ~Skipped(cut, j, pts, memo)}

Min(S) == CHOOSE x \in S : \A y \in S : x <= y

\* every point counts as on the good side
goodsideAlways(f, j) == TRUE

goodside(f, j) == side[At(f, j)] # "neg"

goodx(f, j) ==
    /\ (~hasS1 \/ c1[At(f, j)] # "out")
    /\ (~hasS2 \/ c2[At(f, j)] # "out")

\* line 463
Propagates(f, cutted) ==
    cutted \/ \E j \in 0..2 : goodside(f, j) /\ goodx(f, j)

SeenAfterEmptySkips(sn, fi) == sn

SeenAfterEmpty(sn, fi) == sn \cup {fi}

CutEdgeRunning == pc = "cut_edge" /\ front # << >>

\* line 363: the popped edge has no face
PopAbsent ==
    /\ CutEdgeRunning
    /\ Top(front) \notin DOMAIN conn
    /\ front' = Pop(front)
    /\ UNCHANGED drivervars
    /\ UNCHANGED <<points, faces, tracks, conn, side, c1, c2, xmemo, hasS1, hasS2,
                   degen, axial, line, ei, seen, intersections, removal, corner, toremove, keptlog, splitlog, pc>>

\* line 365: the face of the popped edge is already seen
PopSeen ==
    /\ CutEdgeRunning
    /\ Top(front) \in DOMAIN conn
    /\ conn[Top(front)] \in seen
    /\ front' = Pop(front)
    /\ UNCHANGED drivervars
    /\ UNCHANGED <<points, faces, tracks, conn, side, c1, c2, xmemo, hasS1, hasS2,
                   degen, axial, line, ei, seen, intersections, removal, corner, toremove, keptlog, splitlog, pc>>

Fresh ==
    /\ CutEdgeRunning
    /\ Top(front) \in DOMAIN conn
    /\ conn[Top(front)] \notin seen

\* lines 369-373: an empty face is passed through
PassEmpty ==
    /\ Fresh
    /\ EmptyFace(faces, degen, conn[Top(front)])
    /\ Len(front) + 2 <= MaxFront
    /\ seen' = SeenAfterEmpty(seen, conn[Top(front)])
    /\ front' = PushReversed(Pop(front), faces[conn[Top(front)]])
    /\ UNCHANGED drivervars
    /\ UNCHANGED <<points, faces, tracks, conn, side, c1, c2, xmemo, hasS1, hasS2,
                   degen, axial, line, ei, intersections, removal, corner, toremove, keptlog, splitlog, pc>>

\* line 379 is false (p is None), so the face goes to the else branch of line 394
Processed ==
    /\ Fresh
    /\ ~EmptyFace(faces, degen, conn[Top(front)])
    /\ AxisPoint(faces[conn[Top(front)]]) = None

\* lines 416-417: no corner on the good side
StopFace ==
    /\ Processed
    /\ LET fi == conn[Top(front)]
           f == faces[fi]
       IN /\ ~\E j \in 0..2 : goodside(f, j)
          /\ seen' = seen \cup {fi}
          /\ front' = Pop(front)
    /\ UNCHANGED drivervars
    /\ UNCHANGED <<points, faces, tracks, conn, side, c1, c2, xmemo, hasS1, hasS2,
                   degen, axial, line, ei, intersections, removal, corner, toremove, keptlog, splitlog, pc>>

\* line 426 without its test of goodx
AllGoodAnywhere(f) == \A j \in 0..2 : goodside(f, j)

\* line 426
AllGood(f) ==
    /\ \A j \in 0..2 : goodside(f, j)
    /\ \E j \in 0..2 : goodx(f, j)

\* the draws of the separator classes of the cut points computed for face f
DrawAt(cut, j) ==
    IF cut[j] \in Unknown(cut, passid, xmemo)
    THEN MemoChoices(cut[j], hasS1, hasS2, c1, c2)
    ELSE {None}

MemoDraws(cut) ==
    {[loc \in Unknown(cut, passid, xmemo) |->
        IF loc = cut[0] THEN d[1] ELSE IF loc = cut[1] THEN d[2] ELSE d[3]] :
     d \in DrawAt(cut, 0) \X DrawAt(cut, 1) \X DrawAt(cut, 2)}

\* lines 419-436 and 462-465 when no pair of cuts is kept: the face is not split
KeepFace ==
    /\ Processed
    /\ LET fi == conn[Top(front)]
           f == faces[fi]
           cut == Cuts(f, side, points, passid)
       IN /\ \E j \in 0..2 : goodside(f, j)
          /\ Len(front) + 2 <= MaxFront
          /\ \E m \in MemoDraws(cut) :
                /\ SplitAt(cut, points, xmemo @@ m) = {}
                /\ xmemo' = Needed(xmemo @@ m, conn, seen \cup {fi})
          /\ seen' = seen \cup {fi}
          /\ removal' = IF AllGood(f) THEN removal \cup {fi} ELSE removal
          /\ front' = IF Propagates(f, \E j \in 0..2 : CutPair(cut, j))
                      THEN PushReversed(Pop(front), f)
                      ELSE Pop(front)
    /\ UNCHANGED drivervars
    /\ UNCHANGED <<points, faces, tracks, conn, side, c1, c2, hasS1, hasS2,
                   degen, axial, line, ei, intersections, corner, toremove, keptlog, splitlog, pc>>

\* the class lists extended like mesh.points by the one or two created points; their
\* own classes are not read again in the pass that creates them
Extend(kk, pts2, c) ==
    [i \in 1..Len(pts2) |-> IF i <= Len(kk) THEN kk[i] ELSE c]

\* line 454 with the tolerance: dot(...) < -prec
ApexFarOutside(f, j) == side[At(f, j)] = "neg"

\* line 454: dot(...) < 0
ApexOutside(f, j) == side[At(f, j)] \in {"neg", "onn"}

SeenAfterSplitForgets(sn, fi, l) == sn \cup {fi}

SeenAfterSplit(sn, fi, l) == sn \cup {fi, l + 1, l + 2}

\* lines 438-461: the face is cut at the first kept pair of cuts
SplitFace ==
    /\ Processed
    /\ LET fi == conn[Top(front)]
           f == faces[fi]
           cut == Cuts(f, side, points, passid)
           l == Len(faces)
       IN /\ \E j \in 0..2 : goodside(f, j)
          /\ Len(front) + 2 <= MaxFront
          /\ \E m \in MemoDraws(cut) :
               LET memo == xmemo @@ m
                   S == SplitAt(cut, points, memo)
               IN /\ S # {}
                  /\ LET j == Min(S)
                         p1 == usepointat(points, cut[j])
                         pts1 == usepointat_points(points, cut[j])
                         p2 == usepointat(pts1, cut[(j + 2) % 3])
                         pts2 == usepointat_points(pts1, cut[(j + 2) % 3])
                         child0 == <<p1, At(f, j - 2), At(f, j - 1)>>
                         child1 == <<p1, At(f, j - 1), p2>>
                         child2 == <<p1, p2, At(f, j)>>
                         marked == (IF AllGood(f) THEN removal \cup {fi} ELSE removal) \ {fi}
                     IN /\ points' = pts2
                        /\ side' = Extend(side, pts2, "onp")
                        /\ c1' = Extend(c1, pts2, "in")
                        /\ c2' = Extend(c2, pts2, "in")
                        /\ faces' = Append(Append([faces EXCEPT ![fi] = child0], child1), child2)
                        /\ tracks' = Append(Append(tracks, tracks[fi]), tracks[fi])
                        /\ conn' = RegisterEdges(RegisterEdges(RegisterEdges(
                                       UnregisterEdges(conn, f), child0, fi),
                                       child1, l + 1), child2, l + 2)
                        /\ seen' = SeenAfterSplit(seen, fi, l)
                        /\ splitlog' = Append(splitlog, <<fi, l + 1, l + 2>>)
                        /\ xmemo' = Needed(memo, conn', seen')
                        /\ removal' = IF ApexOutside(f, j)
                                      THEN marked \cup {fi, l + 1}
                                      ELSE marked \cup {l + 2}
                        /\ intersections' = intersections \cup
                                      {IF ApexOutside(f, j) THEN <<p2, p1>> ELSE <<p1, p2>>}
          /\ front' = PushReversed(Pop(front), f)
    /\ UNCHANGED drivervars
    /\ UNCHANGED <<hasS1, hasS2, degen, axial, line, ei, corner, toremove, keptlog, pc>>

\* line 467
CutEdgeReturn ==
    /\ pc = "cut_edge"
    /\ front = << >>
    /\ pc' = "edge_returned"
    /\ UNCHANGED drivervars
    /\ UNCHANGED <<points, faces, tracks, conn, side, c1, c2, xmemo, hasS1, hasS2,
                   degen, axial, line, ei, seen, front, intersections, removal, corner,
                   toremove, keptlog, splitlog>>

CutEdgeStep ==
    \/ PopAbsent
    \/ PopSeen
    \/ PassEmpty
    \/ StopFace
    \/ KeepFace
    \/ SplitFace

(***************************************************************************)
(* One cut_edge pass along the edge (1,2) of a triangular bipyramid (apexes *)
(* 1 and 5, equator 2,3,4) with the face (5,2,4) left out, so that the     *)
(* mesh has a border and a face that holds no end of the edge              *)
(***************************************************************************)
MeshPoints == << <<0, 1, 1>>, <<0, 2, 2>>, <<0, 3, 3>>, <<0, 4, 4>>, <<0, 5, 5>> >>

MeshFaces == << <<1, 2, 3>>, <<1, 3, 4>>, <<1, 4, 2>>, <<5, 3, 2>>, <<5, 4, 3>> >>

MeshLines == { <<1, 2>> }

\* the ends of the edge are on the good side of its cut plane, at |offset| from it
SeedSides(ln) == {sd \in [1..5 -> Sides] : sd[ln[1]] = "pos" /\ sd[ln[2]] = "pos"}

\* s1 goes through the first end of the edge and s2 through the second
SeedC1(ln) == {k \in [1..5 -> SepClasses] : k[ln[1]] = "edge" /\ k[ln[2]] = "in"}

SeedC2(ln) == {k \in [1..5 -> SepClasses] : k[ln[2]] = "edge" /\ k[ln[1]] = "in"}

AllIn == [i \in 1..5 |-> "in"]

\* one group per face
MeshGroups == [i \in 1..Len(MeshFaces) |-> "face"]

\* the junction loop has not started
BevelIdle ==
    /\ nsuites = << >>
    /\ ji = 0
    /\ tmatch = {}
    /\ reported = {}

\* cut_line has not computed its separators
SepIdle ==
    /\ parallel = {}
    /\ sepsegments = << >>
    /\ limits = << >>

\* no function is wrapped by cached
CacheIdle ==
    /\ caches = << >>
    /\ cachefiles = << >>
    /\ usefile = FALSE
    /\ codedate = 0
    /\ now = 0
    /\ called = None
    /\ alive = {} /\ dead = {} /\ finals = {} /\ rec = << >> /\ latest = << >>

\* no user function is running
UserIdle ==
    /\ BevelIdle
    /\ SepIdle
    /\ CacheIdle
    /\ cutter = None
    /\ li = 0
    /\ corners = << >>
    /\ contrib = {}
    /\ segments = {}

InitMesh ==
    /\ points = MeshPoints
    /\ faces = MeshFaces
    /\ tracks = [i \in 1..Len(MeshFaces) |-> i]
    /\ conn = connef(MeshFaces, Len(MeshFaces))
    /\ xmemo = << >>
    /\ seen = {}
    /\ removal = {}
    /\ splitlog = << >>
    /\ result = << >>
    /\ merges = << >>
    /\ gi = 1
    /\ kept = << >>
    /\ groups = MeshGroups

StrictSides(ln) == {sd \in SeedSides(ln) : \A i \in 1..5 : sd[i] \in {"pos", "neg"}}

InitEdgePass ==
    /\ InitMesh
    /\ axial = {}
    /\ UserIdle
    /\ line \in MeshLines
    /\ ei = 1
    /\ passid = 1
    /\ op = "cut_edge"
    /\ agenda = << >>
    /\ pc = "cut_edge"
    /\ corner = 0
    /\ toremove = << >>
    /\ keptlog = {}
    /\ intersections = {}
    /\ \/ /\ hasS1 = FALSE /\ hasS2 = FALSE
          /\ c1 = AllIn /\ c2 = AllIn
          /\ side \in SeedSides(line)
          /\ degen \in {{}} \cup {{i} : i \in 1..Len(MeshFaces)}
          /\ front \in { <<Edge, <<Edge[2], Edge[1]>> >>, << <<Edge[2], Edge[1]>>, Edge>> }
       \/ /\ hasS1 = TRUE /\ hasS2 = FALSE
          /\ c1 \in SeedC1(line) /\ c2 = AllIn
          /\ side \in StrictSides(line)
          /\ degen = {}
          /\ front = << <<Edge[2], Edge[1]>>, Edge>>
       \/ /\ hasS1 = FALSE /\ hasS2 = TRUE
          /\ c1 = AllIn /\ c2 \in SeedC2(line)
          /\ side \in StrictSides(line)
          /\ degen = {}
          /\ front = << <<Edge[2], Edge[1]>>, Edge>>
       \/ /\ hasS1 = TRUE /\ hasS2 = TRUE
          /\ c1 \in SeedC1(line) /\ c2 \in SeedC2(line)
          /\ \A i \in 1..5 : c1[i] # "edge" /\ c2[i] # "edge" => c1[i] = "in" \/ c2[i] = "in"
          /\ \A i \in 1..5 : c1[i] = "edge" => i = line[1]
          /\ \A i \in 1..5 : c2[i] = "edge" => i = line[2]
          /\ side \in StrictSides(line)
          /\ degen = {}
          /\ front = << <<Edge[2], Edge[1]>>, Edge>>

(***************************************************************************)
(* cut_corner: one action per outcome of one iteration of `while front`    *)
(***************************************************************************)
CornerRunning == pc = "cut_corner" /\ front # << >>

\* lines 496-498: the corner of f that is neither a nor b (the last one if there is none)
Third(f, a, b) ==
    IF f[1] # a /\ f[1] # b THEN f[1]
    ELSE IF f[2] # a /\ f[2] # b THEN f[2]
    ELSE f[3]

\* lines 520-523: the reversed edges that have an end strictly on the good side
PushIf(fr, f, i) ==
    IF side[At(f, i - 1)] = "pos" \/ side[At(f, i)] = "pos"
    THEN Append(fr, <<At(f, i), At(f, i - 1)>>)
    ELSE fr

PushGood(fr, f) == PushIf(PushIf(PushIf(fr, f, 0), f, 1), f, 2)

\* line 494: the plane crosses the edge farther than prec from both ends
CrossesInside(a, b) ==
    /\ side[a] \in {"pos", "neg"}
    /\ side[b] \in {"pos", "neg"}
    /\ side[a] # side[b]

\* line 482
CornerPopSeen ==
    /\ CornerRunning
    /\ Top(front) \in seen
    /\ front' = Pop(front)
    /\ UNCHANGED drivervars
    /\ UNCHANGED <<points, faces, tracks, conn, side, c1, c2, xmemo, hasS1, hasS2,
                   degen, axial, line, ei, seen, intersections, removal, corner, toremove, keptlog, splitlog, pc>>

FrontAfterAbsentDrops(fr) == Pop(fr)

\* lines 481, 485: the front once an edge without a face is popped
FrontAfterAbsent(fr) == Append(Pop(fr), <<Top(fr)[2], Top(fr)[1]>>)

\* lines 483-486: the popped edge has no face; its reverse is pushed
CornerPopAbsent ==
    /\ CornerRunning
    /\ Top(front) \notin seen
    /\ Top(front) \notin DOMAIN conn
    /\ seen' = seen \cup {Top(front)}
    /\ front' = FrontAfterAbsent(front)
    /\ UNCHANGED drivervars
    /\ UNCHANGED <<points, faces, tracks, conn, side, c1, c2, xmemo, hasS1, hasS2,
                   degen, axial, line, ei, intersections, removal, corner, toremove, keptlog, splitlog, pc>>

CornerFresh ==
    /\ CornerRunning
    /\ Top(front) \notin seen
    /\ Top(front) \in DOMAIN conn
    /\ Len(front) + 2 <= MaxFront

\* a split that leaves the track list as it was
TrackOfSplitMissing(tr, fi) == tr

\* line 503: the new face gets the track of the face it comes from
TrackOfSplit(tr, fi) == Append(tr, tr[fi])

\* the dict toremove with key k deleted, then key r set to v
SetKey(tr, k, del, r, v) ==
    [x \in ((DOMAIN tr) \ (IF del THEN {k} ELSE {})) \cup {r} |-> IF x = r THEN v ELSE tr[x]]

\* lines 494-514: the edge is cut, the face (a,b,c) becomes (a,pi,c) and (pi,b,c)
CornerSplit ==
    /\ CornerFresh
    /\ LET a == Top(front)[1]
           b == Top(front)[2]
           fi == conn[Top(front)]
           f == faces[fi]
           loc == XLoc(0 - corner, a, b)
           pi == usepointat(points, loc)
           pts2 == usepointat_points(points, loc)
           c == Third(f, a, b)
           l == Len(faces)
           swap == side[a] = "pos" \/ side[b] = "neg"
           r == IF swap THEN fi ELSE l + 1
           k == IF swap THEN l + 1 ELSE fi
       IN /\ CrossesInside(a, b)
          /\ points' = pts2
          /\ side' = Extend(side, pts2, "onp")
          /\ c1' = Extend(c1, pts2, "in")
          /\ c2' = Extend(c2, pts2, "in")
          /\ faces' = Append([faces EXCEPT ![fi] = <<a, pi, c>>], <<pi, b, c>>)
          /\ tracks' = TrackOfSplit(tracks, fi)
          /\ conn' = RegisterEdges(RegisterEdges(conn, <<a, pi, c>>, fi), <<pi, b, c>>, l + 1)
          /\ intersections' = IF fi \in DOMAIN toremove
                              THEN Append(intersections, <<toremove[fi], pi>>)
                              ELSE intersections
          /\ toremove' = SetKey(toremove, k, k \in DOMAIN toremove, r, pi)
          /\ keptlog' = IF k \in DOMAIN toremove THEN keptlog \cup {k} ELSE keptlog
          /\ seen' = seen \cup {Top(front)}
          /\ front' = PushGood(Pop(front), f)
    /\ UNCHANGED drivervars
    /\ UNCHANGED <<xmemo, hasS1, hasS2, degen, axial, line, ei, removal, corner, splitlog, pc>>

\* lines 515-517: the edge is not cut, its face is inside
CornerInside ==
    /\ CornerFresh
    /\ LET a == Top(front)[1]
           b == Top(front)[2]
           fi == conn[Top(front)]
           f == faces[fi]
       IN /\ ~CrossesInside(a, b)
          /\ toremove' = SetKey(toremove, fi, FALSE, fi, NoPoint)
          /\ keptlog' = keptlog
          /\ seen' = seen \cup {Top(front)}
          /\ front' = PushGood(Pop(front), f)
    /\ UNCHANGED drivervars
    /\ UNCHANGED <<points, faces, tracks, conn, side, c1, c2, xmemo, hasS1, hasS2,
                   degen, axial, line, ei, intersections, removal, corner, splitlog, pc>>

\* lines 527-528
CornerReturn ==
    /\ pc = "cut_corner"
    /\ front = << >>
    /\ removal' = removal \cup DOMAIN toremove
    /\ pc' = "corner_returned"
    /\ UNCHANGED drivervars
    /\ UNCHANGED <<points, faces, tracks, conn, side, c1, c2, xmemo, hasS1, hasS2,
                   degen, axial, line, ei, seen, front, intersections, corner, toremove, keptlog, splitlog>>

CornerStep ==
    \/ CornerPopSeen
    \/ CornerPopAbsent
    \/ CornerSplit
    \/ CornerInside

\* One cut_corner pass at point 1 of the same mesh; the corner is on the good side of
\* its plane, at |offset| from it; line 476 takes the first edge of conn that holds it
CornerSides == {sd \in [1..5 -> {"pos", "onp", "neg"}] : sd[1] = "pos"}

InitCornerPass ==
    /\ InitMesh
    /\ axial = {}
    /\ UserIdle
    /\ line = << >>
    /\ ei = 0
    /\ passid = 0
    /\ op = "cut_corner"
    /\ agenda = << >>
    /\ pc = "cut_corner"
    /\ corner = 1
    /\ toremove = << >>
    /\ keptlog = {}
    /\ intersections = << >>
    /\ hasS1 = FALSE /\ hasS2 = FALSE
    /\ c1 = AllIn /\ c2 = AllIn
    /\ degen = {}
    /\ side \in CornerSides
    /\ \E e \in {x \in DOMAIN connef(MeshFaces, Len(MeshFaces)) : corner \in {x[1], x[2]}} :
          front = <<e, <<e[2], e[1]>> >>

Init == InitEdgePass \/ InitCornerPass

Next == CutEdgeStep \/ CutEdgeReturn \/ CornerStep \/ CornerReturn

Spec == Init /\ [][Next]_vars

(***************************************************************************)
(* cut_edge passes with one separator whose axis crosses a face            *)
(***************************************************************************)
\* the classes of the points for the separator whose axis cut_edge takes (lines 377-378)
AxisClasses == IF hasS2 THEN c2 ELSE c1

\* the axis is in the cut plane and in the plane of the separator: it can cross the
\* inside of a face only if the face has corners on both sides of each of them
Crossable(fi) ==
    LET f == MeshFaces[fi]
    IN  /\ \E n \in 1..3 : side[f[n]] = "pos"
        /\ \E n \in 1..3 : side[f[n]] = "neg"
        /\ \E n \in 1..3 : AxisClasses[f[n]] = "in"
        /\ \E n \in 1..3 : AxisClasses[f[n]] = "out"

\* lines 623-629: the point where the axis crosses the inside of the face, or None
intersection_axis_face(fi) == IF fi \in axial THEN <<"axis", fi>> ELSE None

InitAxis ==
    /\ InitMesh
    /\ UserIdle
    /\ line \in MeshLines
    /\ ei = 1
    /\ passid = 1
    /\ op = "cut_edge"
    /\ agenda = << >>
    /\ pc = "cut_edge"
    /\ corner = 0
    /\ toremove = << >>
    /\ keptlog = {}
    /\ intersections = {}
    /\ \/ /\ hasS1 = TRUE /\ hasS2 = FALSE
          /\ c1 \in SeedC1(line) /\ c2 = AllIn
       \/ /\ hasS1 = FALSE /\ hasS2 = TRUE
          /\ c1 = AllIn /\ c2 \in SeedC2(line)
    /\ side \in StrictSides(line)
    /\ degen = {}
    /\ axial \in {{fi} : fi \in {i \in 1..Len(MeshFaces) : Crossable(i)}}
    /\ front = << <<Edge[2], Edge[1]>>, Edge>>

\* the faces of these meshes have a height above prec
NextAxis == PopAbsent \/ PopSeen \/ StopFace \/ KeepFace \/ SplitFace \/ CutEdgeReturn

SpecAxis == InitAxis /\ [][NextAxis]_vars

(***************************************************************************)
(* cut_line: the passes of the edges of one polyline, the point merges and *)
(* the final removal                                                       *)
(***************************************************************************)
\* line 308: the set cut_line makes; cut_edge is not given it and nothing is added to it
LineRemoval == {}

MaxMerged == 1

\* lines 317-327: the call for the next edge.  The polyline is straight and its offsets
\* are equal: the cut plane is the same and separators() holds None (line 282)
LineNextEdge ==
    /\ op = "cut_line"
    /\ pc = "edge_returned"
    /\ ei + 1 < Len(line)
    /\ result' = Append(result, intersections)
    /\ ei' = ei + 1
    /\ seen' = {}
    /\ intersections' = {}
    /\ xmemo' = << >>
    /\ splitlog' = << >>
    /\ front' = << <<line[ei + 2], line[ei + 1]>>, <<line[ei + 1], line[ei + 2]>> >>
    /\ pc' = "cut_edge"
    /\ UNCHANGED <<points, faces, tracks, conn, side, c1, c2, hasS1, hasS2, degen, axial, line,
                   removal, corner, toremove, keptlog, op, agenda, passid, merges, gi, kept>>
    /\ UNCHANGED uservars

\* line 327 for the last edge
LineLastEdge ==
    /\ op = "cut_line"
    /\ pc = "edge_returned"
    /\ ei + 1 = Len(line)
    /\ result' = Append(result, intersections)
    /\ pc' = "simplify"
    /\ UNCHANGED <<points, faces, tracks, conn, side, c1, c2, xmemo, hasS1, hasS2, degen, axial,
                   line, ei, seen, front, intersections, removal, corner, toremove, keptlog,
                   splitlog, op, agenda, passid, merges, gi, kept>>
    /\ UNCHANGED uservars

WebPoints(grp) == {t[1] : t \in grp} \cup {t[2] : t \in grp}

Neighbours(grp, b) == {a \in WebPoints(grp) \ {b} : <<a, b>> \in grp \/ <<b, a>> \in grp}

Inner(grp) == {b \in WebPoints(grp) : Cardinality(Neighbours(grp, b)) = 2}

\* line_simplification(Web(mesh.points, grp), prec): the maps that send points standing
\* between two neighbours of the polyline to the neighbour they are merged with
\* b stands within prec of the line through its two neighbours: a face that has the
\* three of them for corners has no height
Aligned(grp, b) ==
    \A fi \in 1..Len(faces) :
        {faces[fi][1], faces[fi][2], faces[fi][3]} = Neighbours(grp, b) \cup {b}
            => EmptyFace(faces, degen, fi)

line_simplification(grp) ==
    {m \in UNION {[D -> WebPoints(grp)] : D \in SUBSET Inner(grp)} :
        /\ Cardinality(DOMAIN m) <= MaxMerged
        /\ \A b \in DOMAIN m : Aligned(grp, b)
        /\ \A b \in DOMAIN m :
              /\ m[b] \notin DOMAIN m
              /\ \/ m[b] \in Neighbours(grp, b)
                 \/ \E n \in Neighbours(grp, b) \cap DOMAIN m : m[n] = m[b]}

\* reindex.get(a, a)
Reindexed(m, a) == IF a \in DOMAIN m THEN m[a] ELSE a

\* lines 331-338 for one group
SimplifyGroup ==
    /\ pc = "simplify"
    /\ gi <= Len(result)
    /\ \E reindex \in line_simplification(result[gi]) :
          /\ result' = [result EXCEPT ![gi] =
                 {<<Reindexed(reindex, t[1]), Reindexed(reindex, t[2])>> :
                     t \in {x \in result[gi] :
                               Reindexed(reindex, x[1]) # Reindexed(reindex, x[2])}}]
          /\ merges' = reindex @@ merges
    /\ gi' = gi + 1
    /\ UNCHANGED <<points, faces, tracks, conn, side, c1, c2, xmemo, hasS1, hasS2, degen, axial,
                   line, ei, seen, front, intersections, removal, corner, toremove, keptlog,
                   splitlog, pc, op, agenda, passid, kept>>
    /\ UNCHANGED uservars

MergedFace(m, f) == <<Reindexed(m, f[1]), Reindexed(m, f[2]), Reindexed(m, f[3])>>

\* lines 340-345
ApplyMerges ==
    /\ pc = "simplify"
    /\ gi > Len(result)
    /\ faces' = [i \in 1..Len(faces) |-> MergedFace(merges, faces[i])]
    /\ pc' = "merged"
    /\ UNCHANGED <<points, tracks, conn, side, c1, c2, xmemo, hasS1, hasS2, degen, axial,
                   line, ei, seen, front, intersections, removal, corner, toremove, keptlog,
                   splitlog, op, agenda, passid, result, merges, gi, kept>>
    /\ UNCHANGED uservars

\* removefaces, lines 634-639: the indices i in increasing order with crit(i) false
RECURSIVE KeptIndices(_, _)
KeptIndices(n, drop) ==
    IF n = 0 THEN << >>
    ELSE IF n \in drop THEN KeptIndices(n - 1, drop)
    ELSE Append(KeptIndices(n - 1, drop), n)

\* line 348: the faces that cut_line drops
LineDrop == {fi \in 1..Len(faces) : fi \in LineRemoval \/ EmptyFace(faces, degen, fi)}

\* line 348 and removefaces
LineRemoveFaces ==
    /\ pc = "merged"
    /\ kept' = KeptIndices(Len(faces), LineDrop)
    /\ faces' = [n \in 1..Len(kept') |-> faces[kept'[n]]]
    /\ tracks' = [n \in 1..Len(kept') |-> tracks[kept'[n]]]
    /\ degen' = {n \in 1..Len(kept') : kept'[n] \in degen}
    /\ axial' = {n \in 1..Len(kept') : kept'[n] \in axial}
    /\ pc' = "line_returned"
    /\ UNCHANGED <<points, conn, side, c1, c2, xmemo, hasS1, hasS2,
                   line, ei, seen, front, intersections, removal, corner, toremove, keptlog,
                   splitlog, op, agenda, passid, result, merges, gi>>
    /\ UNCHANGED uservars

\* cut_line on a polyline of the bipyramid whose points are in line (1, 2, 5)
LineLines == { <<1, 2>>, <<1, 2, 5>> }

LineSides(ln) == {sd \in [1..5 -> Sides] : \A n \in 1..Len(ln) : sd[ln[n]] = "pos"}

InitLine ==
    /\ InitMesh
    /\ axial = {}
    /\ UserIdle
    /\ line \in LineLines
    /\ ei = 1
    /\ passid = 1
    /\ op = "cut_line"
    /\ agenda = << >>
    /\ pc = "cut_edge"
    /\ corner = 0
    /\ toremove = << >>
    /\ keptlog = {}
    /\ intersections = {}
    /\ hasS1 = FALSE /\ hasS2 = FALSE
    /\ c1 = AllIn /\ c2 = AllIn
    /\ side \in LineSides(line)
    /\ degen \in {{}} \cup {{i} : i \in 1..Len(MeshFaces)}
    /\ front = << <<Edge[2], Edge[1]>>, Edge>>

NextLine ==
    \/ CutEdgeStep
    \/ CutEdgeReturn
    \/ LineNextEdge
    \/ LineLastEdge
    \/ SimplifyGroup
    \/ ApplyMerges
    \/ LineRemoveFaces

SpecLine == InitLine /\ [][NextLine]_vars

(***************************************************************************)
(* chamfer (lines 56-74): a cut_corner call for each end of each polyline, *)
(* then a cut call (lines 530-584) for each polyline                       *)
(***************************************************************************)
\* the classes of the points for a new cut plane that has the original points of good on
\* its good side.  The planes are near their own corner or edge: a point cut on an edge
\* is on the good side only when both ends of the edge are
RECURSIVE PointSide(_, _, _)
PointSide(pts, good, i) ==
    IF i <= Len(MeshPoints) THEN (IF i \in good THEN "pos" ELSE "neg")
    ELSE IF PointSide(pts, good, pts[i][2]) = "pos" /\ PointSide(pts, good, pts[i][3]) = "pos"
         THEN "pos" ELSE "neg"

PlaneSides(pts, good) == [i \in 1..Len(pts) |-> PointSide(pts, good, i)]

\* the plane of a corner cuts the corner off, or leaves the whole mesh on the good side
CornerGood(p) == { {p}, 1..Len(MeshPoints) }

\* the plane of an edge has the ends of the edge on its good side, alone or with one
\* more point
EdgeGood(a, b) == { {a, b} \cup X : X \in {{}} \cup {{i} : i \in 1..Len(MeshPoints)} }

\* line 476 on the map that connef makes of the faces in their order: the first edge
\* of the first face that holds p
FirstEdge(fs, p) ==
    LET fi == Min({i \in 1..Len(fs) : p \in {fs[i][1], fs[i][2], fs[i][3]}})
    IN IF p = fs[fi][3] THEN <<fs[fi][2], fs[fi][3]>> ELSE <<fs[fi][1], fs[fi][2]>>

\* the functions of cut.py whose name is cut_ and a suffix (lines 16, 22, 26, 30, 305,
\* 352, 469)
CutGlobals == {"width", "distance", "depth", "angle", "line", "edge", "corner"}

\* the cutters given: a tuple (name, param), a function of two normals, a number
Cutters == {<<"tuple", n>> : n \in CutGlobals \cup {"round"}} \cup {<<"callable">>, <<"number">>}

\* lines 248-256: the function made of the cutter, or the exception raised
interpretcutter(c) ==
    IF c[1] = "tuple"
    THEN IF c[2] \in CutGlobals THEN <<"lambda", c[2]>> ELSE <<"KeyError">>
    ELSE IF c[1] = "callable" THEN c ELSE <<"TypeError">>

\* every function found is called without an exception
CutterCallAccepts(f) == "ok"

\* line 241, cutter(fn1, fn2): cut_angle reads n, which has no value (line 32);
\* cut_line, cut_edge and cut_corner are not functions of (param, fn1, fn2)
CutterCall(f) ==
    IF f[1] = "callable" THEN "ok"
    ELSE IF f[2] \in {"width", "distance", "depth"} THEN "ok"
    ELSE IF f[2] = "angle" THEN "NameError"
    ELSE IF f[2] = "line" THEN "AttributeError"
    ELSE "TypeError"

\* lines 229-244 on a polyline with an edge: "ok" or the exception raised
planeoffsets(c) ==
    IF interpretcutter(c)[1] \in {"KeyError", "TypeError"} THEN interpretcutter(c)[1]
    ELSE CutterCall(interpretcutter(c))

\* suites(edges) for the edges (1,2) and (5,3): two open polylines
ChamferLines == << <<1, 2>>, <<5, 3>> >>

\* dot(offset, offset) / dot(offset, normals[point]) for an end of a polyline
CornerVals == {0 - 1, 1}

\* corners.get(p, d)
CornerGet(cs, p, d) ==
    IF \E n \in 1..Len(cs) : cs[n][1] = p
    THEN cs[CHOOSE n \in 1..Len(cs) : cs[n][1] = p][2]
    ELSE d

\* corners[p] = v
CornerSet(cs, p, v) ==
    IF \E n \in 1..Len(cs) : cs[n][1] = p
    THEN [n \in 1..Len(cs) |-> IF cs[n][1] = p THEN <<p, v>> ELSE cs[n]]
    ELSE Append(cs, <<p, v>>)

\* lines 67-68: min(corners.get(p, 0), v)
CornerValue(cs, p, v) == IF CornerGet(cs, p, 0) < v THEN CornerGet(cs, p, 0) ELSE v

CornerAdd(cs, p, v) == CornerSet(cs, p, CornerValue(cs, p, v))

ChamferSetup ==
    /\ op = "chamfer"
    /\ pc = "setup"
    /\ li <= Len(ChamferLines)

\* lines 63-68 for one polyline
ChamferOffsets ==
    /\ ChamferSetup
    /\ planeoffsets(cutter) = "ok"
    /\ LET ln == ChamferLines[li]
       IN \E v0, v1 \in CornerVals :
             /\ corners' = CornerAdd(CornerAdd(corners, ln[1], v0), ln[Len(ln)], v1)
             /\ contrib' = contrib \cup {<<ln[1], v0>>, <<ln[Len(ln)], v1>>}
    /\ li' = li + 1
    /\ UNCHANGED <<points, faces, tracks, conn, side, c1, c2, xmemo, hasS1, hasS2, degen, axial,
                   line, ei, seen, front, intersections, removal, corner, toremove, keptlog,
                   splitlog, pc, op, agenda, passid, result, merges, gi, kept,
                   cutter, groups, segments>>
    /\ UNCHANGED <<bevelvars, sepvars, cachevars, regvars>>

\* line 65 when planeoffsets raises: the exception leaves chamfer
ChamferRaise ==
    /\ ChamferSetup
    /\ planeoffsets(cutter) # "ok"
    /\ pc' = "raised"
    /\ UNCHANGED <<points, faces, tracks, conn, side, c1, c2, xmemo, hasS1, hasS2, degen, axial,
                   line, ei, seen, front, intersections, removal, corner, toremove, keptlog,
                   splitlog, op, agenda, passid, result, merges, gi, kept, uservars>>
    /\ UNCHANGED <<bevelvars, sepvars, cachevars, regvars>>

\* the calls of lines 71-74 in their order: the items of corners, then the polylines
CornerCalls(cs) == [n \in 1..Len(cs) |-> <<"corner", cs[n][1], cs[n][2]>>]

CutCalls(ls) == [n \in 1..Len(ls) |-> <<"cut", ls[n][1], ls[n][2]>>]

\* lines 70-71: the loops of the calls start; cutter, corners are not read any more
ChamferCutFaces ==
    /\ op = "chamfer"
    /\ pc = "setup"
    /\ li > Len(ChamferLines)
    /\ agenda' = CornerCalls(corners) \o CutCalls(ChamferLines)
    /\ cutter' = None
    /\ corners' = << >>
    /\ contrib' = {}
    /\ pc' = "idle"
    /\ UNCHANGED <<points, faces, tracks, conn, side, c1, c2, xmemo, hasS1, hasS2, degen, axial,
                   line, ei, seen, front, intersections, removal, corner, toremove, keptlog,
                   splitlog, op, passid, result, merges, gi, kept, li, groups, segments>>
    /\ UNCHANGED <<bevelvars, sepvars, cachevars, regvars>>

\* segments.extend(cut_corner(...)) of line 72, once the call has returned
Extended ==
    IF pc = "corner_returned"
    THEN segments \cup {intersections[n] : n \in 1..Len(intersections)}
    ELSE segments

ChamferReady ==
    /\ op = "chamfer"
    /\ pc \in {"idle", "corner_returned", "cut_returned"}
    /\ agenda # << >>

\* line 72 and lines 471-478; conn is the map of the faces as they are
ChamferCorner ==
    /\ ChamferReady
    /\ Head(agenda)[1] = "corner"
    /\ agenda' = Tail(agenda)
    /\ corner' = Head(agenda)[2]
    /\ conn' = connef(faces, Len(faces))
    /\ front' = <<FirstEdge(faces, corner'), <<FirstEdge(faces, corner')[2], FirstEdge(faces, corner')[1]>> >>
    /\ \E g \in CornerGood(corner') : side' = PlaneSides(points, g)
    /\ seen' = {}
    /\ toremove' = << >>
    /\ keptlog' = {}
    /\ intersections' = << >>
    /\ removal' = {}
    /\ pc' = "cut_corner"
    /\ segments' = Extended
    /\ UNCHANGED <<points, faces, tracks, c1, c2, xmemo, hasS1, hasS2, degen, axial, line, ei,
                   splitlog, op, passid, result, merges, gi, kept,
                   cutter, li, corners, contrib, groups>>
    /\ UNCHANGED <<bevelvars, sepvars, cachevars, regvars>>

\* line 74 and lines 531-535, 575-577: cut is called without removal, so it makes its
\* own set and is final; the polyline has one edge and no separator
ChamferCut ==
    /\ ChamferReady
    /\ Head(agenda)[1] = "cut"
    /\ agenda' = Tail(agenda)
    /\ line' = <<Head(agenda)[2], Head(agenda)[3]>>
    /\ ei' = 1
    /\ passid' = passid + 1
    /\ conn' = connef(faces, Len(faces))
    /\ removal' = {}
    /\ seen' = {}
    /\ intersections' = {}
    /\ xmemo' = << >>
    /\ splitlog' = << >>
    /\ front' = << <<line'[2], line'[1]>>, line' >>
    /\ \E g \in EdgeGood(line'[1], line'[2]) : side' = PlaneSides(points, g)
    /\ pc' = "cut_edge"
    /\ segments' = Extended
    /\ UNCHANGED <<points, faces, tracks, c1, c2, hasS1, hasS2, degen, axial, corner, toremove, keptlog,
                   op, result, merges, gi, kept, cutter, li, corners, contrib, groups>>
    /\ UNCHANGED <<bevelvars, sepvars, cachevars, regvars>>

\* lines 582-583 and removefaces: the polyline has no junction, so no corner is cut here
CutFinal ==
    /\ op = "chamfer"
    /\ pc = "edge_returned"
    /\ ei + 1 = Len(line)
    /\ kept' = KeptIndices(Len(faces), removal)
    /\ faces' = [n \in 1..Len(kept') |-> faces[kept'[n]]]
    /\ tracks' = [n \in 1..Len(kept') |-> tracks[kept'[n]]]
    /\ degen' = {n \in 1..Len(kept') : kept'[n] \in degen}
    /\ axial' = {n \in 1..Len(kept') : kept'[n] \in axial}
    /\ segments' = segments \cup intersections
    /\ pc' = "cut_returned"
    /\ UNCHANGED <<points, conn, side, c1, c2, xmemo, hasS1, hasS2, line, ei, seen, front,
                   intersections, removal, corner, toremove, keptlog, splitlog, op, agenda,
                   passid, result, merges, gi, cutter, li, corners, contrib, groups>>
    /\ UNCHANGED <<bevelvars, sepvars, cachevars, regvars>>

\* the end of chamfer
ChamferReturn ==
    /\ op = "chamfer"
    /\ pc \in {"corner_returned", "cut_returned"}
    /\ agenda = << >>
    /\ pc' = "chamfer_returned"
    /\ segments' = Extended
    /\ UNCHANGED <<points, faces, tracks, conn, side, c1, c2, xmemo, hasS1, hasS2, degen, axial,
                   line, ei, seen, front, intersections, removal, corner, toremove, keptlog,
                   splitlog, op, agenda, passid, result, merges, gi, kept,
                   cutter, li, corners, contrib, groups>>
    /\ UNCHANGED <<bevelvars, sepvars, cachevars, regvars>>

InitChamfer ==
    /\ SepIdle
    /\ CacheIdle
    /\ InitMesh
    /\ axial = {}
    /\ BevelIdle
    /\ op = "chamfer"
    /\ cutter \in Cutters
    /\ li = 1
    /\ corners = << >>
    /\ contrib = {}
    /\ segments = {}
    /\ agenda = << >>
    /\ pc = "setup"
    /\ line = << >>
    /\ ei = 0
    /\ passid = 0
    /\ corner = 0
    /\ toremove = << >>
    /\ keptlog = {}
    /\ intersections = {}
    /\ front = << >>
    /\ hasS1 = FALSE /\ hasS2 = FALSE
    /\ c1 = AllIn /\ c2 = AllIn
    /\ side = [i \in 1..Len(MeshPoints) |-> "pos"]
    /\ degen \in {{}} \cup {{i} : i \in 1..Len(MeshFaces)}

NextChamfer ==
    \/ ChamferOffsets
    \/ ChamferRaise
    \/ ChamferCutFaces
    \/ ChamferCorner
    \/ CornerStep
    \/ CornerReturn
    \/ ChamferCut
    \/ CutEdgeStep
    \/ CutEdgeReturn
    \/ CutFinal
    \/ ChamferReturn

SpecChamfer == InitChamfer /\ [][NextChamfer]_vars

(***************************************************************************)
(* bevel (lines 141-192) and beveltgt (lines 89-139): planeoffsets, cut,   *)
(* then a junction for each polyline edge                                  *)
(***************************************************************************)
Bevels == {"bevel", "beveltgt"}

\* a polyline of three edges that have a face on each side
BevelLines == { <<4, 1, 2, 3>> }

\* separators(): the plane at each inner vertex of the polyline; the points of the mesh
\* that it leaves on the side of the edge that follows the vertex
SepAhead(v) == IF v = 1 THEN {2, 3} ELSE IF v = 2 THEN {3} ELSE {}

SepBehind(v) == (1..Len(MeshPoints)) \ (SepAhead(v) \cup {v})

\* the class of a point for the separator at vertex v whose inner side holds inset: a
\* point cut on an edge is inside when no end of the edge is outside
RECURSIVE SepSide(_, _, _, _)
SepSide(pts, inset, v, i) ==
    IF i <= Len(MeshPoints)
    THEN (IF i = v THEN "edge" ELSE IF i \in inset THEN "in" ELSE "out")
    ELSE IF SepSide(pts, inset, v, pts[i][2]) # "out" /\ SepSide(pts, inset, v, pts[i][3]) # "out"
         THEN "in" ELSE "out"

SepSides(pts, inset, v) == [i \in 1..Len(pts) |-> SepSide(pts, inset, v, i)]

\* the cut plane of a polyline edge has the ends of the edge on its good side, alone or
\* with the whole mesh
BevelGood(a, b) == { {a, b}, 1..Len(MeshPoints) }

\* the chains of the segments: the sets of points joined by segments
RECURSIVE Reach(_, _)
Reach(S, segs) ==
    LET T == S \cup {x[2] : x \in {y \in segs : y[1] \in S}}
               \cup {x[1] : x \in {y \in segs : y[2] \in S}}
    IN IF T = S THEN S ELSE Reach(T, segs)

Chains(segs) == {Reach({x[1]}, segs) : x \in segs}

\* the segments that no other segment leads to: each one starts a suite
Starts(segs) == {x \in segs : ~\E y \in segs : y[2] = x[1]}

\* len(suites(s)): the segments are put head to tail; a suite starts at each segment
\* that follows no other one, and a chain without such a segment is a loop
NumSuites(segs) ==
    Cardinality(Starts(segs))
    + Cardinality({c \in Chains(segs) : ~\E x \in Starts(segs) : x[1] \in c})

\* lines 317-327: cut_edge is called for the polyline edge k, with its own cut plane and
\* the separators at its two ends
StartPass(k) ==
    /\ ei' = k
    /\ passid' = passid + 1
    /\ seen' = {}
    /\ intersections' = {}
    /\ xmemo' = << >>
    /\ splitlog' = << >>
    /\ front' = << <<line[k + 1], line[k]>>, <<line[k], line[k + 1]>> >>
    /\ \E g \in BevelGood(line[k], line[k + 1]) : side' = PlaneSides(points, g)
    /\ hasS1' = (k >= 2)
    /\ hasS2' = (k + 1 < Len(line))
    /\ c1' = IF k >= 2 THEN SepSides(points, SepAhead(line[k]), line[k])
             ELSE [i \in 1..Len(points) |-> "in"]
    /\ c2' = IF k + 1 < Len(line) THEN SepSides(points, SepBehind(line[k + 1]), line[k + 1])
             ELSE [i \in 1..Len(points) |-> "in"]
    /\ pc' = "cut_edge"

\* lines 157 and 98: planeoffsets has returned and cut starts (lines 530-537, 575-577)
BevelOffsets ==
    /\ op \in Bevels
    /\ pc = "setup"
    /\ planeoffsets(cutter) = "ok"
    /\ cutter' = None
    /\ removal' = {}
    /\ result' = << >>
    /\ StartPass(1)
    /\ UNCHANGED <<sepvars, cachevars, regvars, points, faces, tracks, conn, degen, axial, line, corner,
                   toremove, keptlog, op, agenda, merges, gi, kept, li, corners, contrib, groups,
                   segments, bevelvars>>

\* lines 157 and 98 when planeoffsets raises: the exception leaves the function
BevelRaise ==
    /\ op \in Bevels
    /\ pc = "setup"
    /\ planeoffsets(cutter) # "ok"
    /\ pc' = "raised"
    /\ UNCHANGED <<sepvars, cachevars, regvars, points, faces, tracks, conn, side, c1, c2, xmemo, hasS1, hasS2, degen, axial,
                   line, ei, seen, front, intersections, removal, corner, toremove, keptlog,
                   splitlog, op, agenda, passid, result, merges, gi, kept, uservars>>

\* lines 575-577: the next edge of the polyline
BevelCutEdge ==
    /\ op \in Bevels
    /\ pc = "edge_returned"
    /\ ei + 1 < Len(line)
    /\ result' = Append(result, intersections)
    /\ StartPass(ei + 1)
    /\ UNCHANGED <<sepvars, cachevars, regvars, points, faces, tracks, conn, degen, axial, line, removal,
                   corner, toremove, keptlog, op, agenda, merges, gi, kept, uservars>>

\* lines 582-584: cut was given no removal set, so it removes the faces and returns; then
\* line 99 (beveltgt) and suites(s) for the segments of each edge (lines 164, 109)
BevelCutReturn ==
    /\ op \in Bevels
    /\ pc = "edge_returned"
    /\ ei + 1 = Len(line)
    /\ result' = Append(result, intersections)
    /\ kept' = KeptIndices(Len(faces), removal)
    /\ faces' = [n \in 1..Len(kept') |-> faces[kept'[n]]]
    /\ tracks' = [n \in 1..Len(kept') |-> tracks[kept'[n]]]
    /\ degen' = {n \in 1..Len(kept') : kept'[n] \in degen}
    /\ axial' = {n \in 1..Len(kept') : kept'[n] \in axial}
    /\ conn' = IF op = "beveltgt" THEN connef(faces', Len(faces')) ELSE conn
    /\ nsuites' = [e \in 1..Len(result') |-> NumSuites(result'[e])]
    /\ ji' = 1
    /\ pc' = "junction"
    /\ UNCHANGED <<sepvars, cachevars, regvars, points, side, c1, c2, xmemo, hasS1, hasS2, line, ei, seen, front,
                   intersections, removal, corner, toremove, keptlog, splitlog, op, agenda,
                   passid, merges, gi, cutter, li, corners, contrib, groups, segments,
                   tmatch, reported>>

JunctionLoop ==
    /\ op \in Bevels
    /\ pc = "junction"
    /\ ji <= Len(result)

\* what the junction loop leaves alone
JunctionFrame ==
    UNCHANGED <<sepvars, cachevars, regvars, points, conn, side, c1, c2, xmemo, hasS1, hasS2, degen, axial, line, ei, seen,
                front, intersections, removal, corner, toremove, keptlog, splitlog, op, agenda,
                passid, result, merges, gi, kept, cutter, li, corners, contrib,
                segments, nsuites>>

\* a face of the surface made for the polyline edge e
JunctionFace(e) == LET sg == CHOOSE x \in result[e] : TRUE IN <<sg[1], sg[2], line[e]>>

\* lines 162 and 105: if not s: continue
JunctionSkip ==
    /\ JunctionLoop
    /\ nsuites[ji] = 0
    /\ ji' = ji + 1
    /\ JunctionFrame
    /\ UNCHANGED <<faces, tracks, groups, tmatch, reported, pc>>

\* one curve: bevel does nothing (lines 165-168), beveltgt adds a flat surface to the
\* mesh (lines 110-111)
JunctionFlat ==
    /\ JunctionLoop
    /\ nsuites[ji] = 1
    /\ ji' = ji + 1
    /\ IF op = "beveltgt"
       THEN /\ faces' = Append(faces, JunctionFace(ji))
            /\ tracks' = Append(tracks, Len(groups) + 1)
            /\ groups' = Append(groups, "flat")
       ELSE UNCHANGED <<faces, tracks, groups>>
    /\ JunctionFrame
    /\ UNCHANGED <<tmatch, reported, pc>>

\* two curves: they are matched (lines 169-188, 112-137)
JunctionMatch ==
    /\ JunctionLoop
    /\ nsuites[ji] = 2
    /\ tmatch' = tmatch \cup {ji}
    /\ ji' = ji + 1
    /\ JunctionFrame
    /\ UNCHANGED <<faces, tracks, groups, reported, pc>>

\* more than two curves: bevel prints the error and goes on (lines 189-190); in
\* beveltgt `left,right = lps` raises ValueError (line 113)
JunctionMany ==
    /\ JunctionLoop
    /\ nsuites[ji] > 2
    /\ IF op = "bevel"
       THEN /\ reported' = reported \cup {ji}
            /\ ji' = ji + 1
            /\ pc' = pc
       ELSE /\ pc' = "raised"
            /\ UNCHANGED <<reported, ji>>
    /\ JunctionFrame
    /\ UNCHANGED <<faces, tracks, groups, tmatch>>

\* lines 192 and 139: mesh += tangentjunction(...), a mesh of one group with the
\* surfaces of the matched curves
TangentJunction ==
    /\ op \in Bevels
    /\ pc = "junction"
    /\ ji > Len(result)
    /\ LET es == KeptIndices(Len(result), (1..Len(result)) \ tmatch)
       IN /\ faces' = faces \o [n \in 1..Len(es) |-> JunctionFace(es[n])]
          /\ tracks' = tracks \o [n \in 1..Len(es) |-> Len(groups) + 1]
    /\ groups' = Append(groups, "junction")
    /\ pc' = "bevel_returned"
    /\ JunctionFrame
    /\ UNCHANGED <<ji, tmatch, reported>>

InitBevel ==
    /\ SepIdle
    /\ CacheIdle
    /\ InitMesh
    /\ axial = {}
    /\ BevelIdle
    /\ op \in Bevels
    /\ cutter \in Cutters
    /\ line \in BevelLines
    /\ li = 0
    /\ corners = << >>
    /\ contrib = {}
    /\ segments = {}
    /\ agenda = << >>
    /\ pc = "setup"
    /\ ei = 0
    /\ passid = 0
    /\ corner = 0
    /\ toremove = << >>
    /\ keptlog = {}
    /\ intersections = {}
    /\ front = << >>
    /\ hasS1 = FALSE /\ hasS2 = FALSE
    /\ c1 = AllIn /\ c2 = AllIn
    /\ side = [i \in 1..Len(MeshPoints) |-> "pos"]
    /\ degen = {}

InitUser == InitChamfer \/ InitBevel

NextUser ==
    \/ ChamferOffsets
    \/ ChamferRaise
    \/ ChamferCutFaces
    \/ ChamferCorner
    \/ CornerStep
    \/ CornerReturn
    \/ ChamferCut
    \/ CutEdgeStep
    \/ CutEdgeReturn
    \/ CutFinal
    \/ ChamferReturn
    \/ BevelOffsets
    \/ BevelRaise
    \/ BevelCutEdge
    \/ BevelCutReturn
    \/ JunctionSkip
    \/ JunctionFlat
    \/ JunctionMatch
    \/ JunctionMany
    \/ TangentJunction

\* the user functions chamfer, bevel and beveltgt
SpecUser == InitUser /\ [][NextUser]_vars

(***************************************************************************)
(* cut (lines 530-584) called on a polyline, with or without the removal   *)
(* set of the caller.  No point of a polyline has three neighbours, so the *)
(* loop of line 579 has no corner to cut.                                  *)
(***************************************************************************)
\* op is "cut" when the caller gives no removal set, "cut_shared" when it gives its own
CutOps == {"cut", "cut_shared"}

\* final = True in both branches of line 533
finalAlways == TRUE

\* lines 533-537
final == op = "cut"

\* lines 575-577 for the first edge; removal is a new set when none was given (line 534)
CutFirstEdge ==
    /\ op \in CutOps
    /\ pc = "cut_called"
    /\ removal' = IF op = "cut" THEN {} ELSE removal
    /\ result' = << >>
    /\ StartPass(1)
    /\ UNCHANGED <<sepvars, cachevars, regvars, points, faces, tracks, conn, degen, axial, line, corner,
                   toremove, keptlog, op, agenda, merges, gi, kept, cutter, li, corners, contrib,
                   groups, segments, bevelvars>>

\* lines 575-577: the next edge
CutNextEdge ==
    /\ op \in CutOps
    /\ pc = "edge_returned"
    /\ ei + 1 < Len(line)
    /\ result' = Append(result, intersections)
    /\ StartPass(ei + 1)
    /\ UNCHANGED <<sepvars, cachevars, regvars, points, faces, tracks, conn, degen, axial, line, removal,
                   corner, toremove, keptlog, op, agenda, merges, gi, kept, uservars>>

\* lines 582-584: removefaces when cut is final, then the return
CutReturn ==
    /\ op \in CutOps
    /\ pc = "edge_returned"
    /\ ei + 1 = Len(line)
    /\ result' = Append(result, intersections)
    /\ kept' = IF final THEN KeptIndices(Len(faces), removal) ELSE KeptIndices(Len(faces), {})
    /\ faces' = [n \in 1..Len(kept') |-> faces[kept'[n]]]
    /\ tracks' = [n \in 1..Len(kept') |-> tracks[kept'[n]]]
    /\ degen' = {n \in 1..Len(kept') : kept'[n] \in degen}
    /\ axial' = {n \in 1..Len(kept') : kept'[n] \in axial}
    /\ pc' = "cut_returned"
    /\ UNCHANGED <<sepvars, cachevars, regvars, points, conn, side, c1, c2, xmemo, hasS1, hasS2, line,
                   ei, seen, front, intersections, removal, corner, toremove, keptlog, splitlog, op,
                   agenda, passid, merges, gi, uservars>>

\* the set of the caller holds nothing, or a face that an earlier operation marked
CallerSets == { {}, {Len(MeshFaces)} }

InitCut ==
    /\ InitMesh
    /\ axial = {}
    /\ BevelIdle
    /\ SepIdle
    /\ CacheIdle
    /\ cutter = None /\ li = 0 /\ corners = << >> /\ contrib = {} /\ segments = {}
    /\ op \in CutOps
    /\ removal \in (IF op = "cut" THEN { {} } ELSE CallerSets)
    /\ line \in BevelLines
    /\ agenda = << >>
    /\ pc = "cut_called"
    /\ ei = 0
    /\ passid = 0
    /\ corner = 0
    /\ toremove = << >>
    /\ keptlog = {}
    /\ intersections = {}
    /\ front = << >>
    /\ hasS1 = FALSE /\ hasS2 = FALSE
    /\ c1 = AllIn /\ c2 = AllIn
    /\ side = [i \in 1..Len(MeshPoints) |-> "pos"]
    /\ degen = {}

NextCut ==
    \/ CutFirstEdge
    \/ PopAbsent
    \/ PopSeen
    \/ StopFace
    \/ KeepFace
    \/ SplitFace
    \/ CutEdgeReturn
    \/ CutNextEdge
    \/ CutReturn

SpecCut == InitCut /\ [][NextCut]_vars

(***************************************************************************)
(* separators (lines 258-303) and the separators that cut_line gives to    *)
(* each call of cut_edge (lines 312-327).  A vertex line[i] of the source  *)
(* is line[i+1] here.  An entry of segments is <<at, plane>>: at is the    *)
(* index i of the vertex the entry was appended for (history), plane is    *)
(* the index of the vertex whose planes made the separator, 0 for None.    *)
(***************************************************************************)
MaxEdges == 5

\* the polylines: open ones of 1 to MaxEdges edges, loops of 3 to MaxEdges edges
SepLines ==
    {[n \in 1..(l + 1) |-> n] : l \in 1..MaxEdges}
    \cup {[n \in 1..(l + 1) |-> IF n = l + 1 THEN 1 ELSE n] : l \in 3..MaxEdges}

\* line 314, and the test of line 267
Circular(ln) == ln[1] = ln[Len(ln)]

\* line 267: range(1, l if line[0]!=line[-1] else l+1), with l of line 265
SepRange(ln) == 1..(IF Circular(ln) THEN Len(ln) - 1 ELSE Len(ln) - 2)

\* lines 268-282: the entry appended for line[i]
SepLocal(i, par) == <<i, IF i \in par THEN 0 ELSE i>>

\* lines 297-298 from index j-1 on: if not segments[i]: segments[i] = segments[i-1]
RECURSIVE FillForward(_, _)
FillForward(s, j) ==
    IF j > Len(s) THEN s
    ELSE FillForward(IF s[j][2] = 0 THEN [s EXCEPT ![j] = <<s[j][1], s[j - 1][2]>>] ELSE s,
                     j + 1)

\* lines 299-300 from index j-1 down: if not segments[i]: segments[i] = segments[i+1]
RECURSIVE FillBackward(_, _)
FillBackward(s, j) ==
    IF j < 1 THEN s
    ELSE FillBackward(IF s[j][2] = 0 THEN [s EXCEPT ![j] = <<s[j][1], s[j + 1][2]>>] ELSE s,
                      j - 1)

\* lines 264-302
separators(ln, par) ==
    LET computed == [i \in SepRange(ln) |-> SepLocal(i, par)]
    IN  FillBackward(FillForward(computed, 2), Len(computed) - 1)

\* segments[j] of Python: a negative index counts from the end
PyItem(s, j) == IF j < 0 THEN s[Len(s) + j + 1] ELSE s[j + 1]

\* s1 taken as on an open polyline whatever the polyline: the first edge of a loop has none
LeftSepOpen(s, i, circ) ==
    IF i >= 2 THEN PyItem(s, i - 2) ELSE None

\* lines 320 and 323: s1 for the edge (line[i-1], line[i])
LeftSep(s, i, circ) ==
    IF circ \/ i >= 2 THEN PyItem(s, i - 2) ELSE None

\* lines 321 and 324: s2 for the edge (line[i-1], line[i])
RightSep(s, i, circ) ==
    IF circ \/ i <= Len(s) THEN PyItem(s, i - 1) ELSE None

\* line 313: segments = separators(mesh, line, offsets)
SepCall ==
    /\ op = "separators"
    /\ pc = "separators"
    /\ sepsegments' = separators(line, parallel)
    /\ ei' = 1
    /\ pc' = "limits"
    /\ UNCHANGED <<points, faces, tracks, conn, side, c1, c2, xmemo, hasS1, hasS2, degen, axial, line, seen, front,
                   intersections, removal, corner, toremove, keptlog, splitlog, op, agenda, passid,
                   result, merges, gi, kept, cutter, li, corners, contrib, groups, segments,
                   bevelvars, cachevars, regvars, parallel, limits>>

\* lines 317-324 for the edge (line[i-1], line[i]), i = ei; the names edge and results
\* of lines 317 and 327 have no value in cut_line and are read as line and result
SepLimits ==
    /\ op = "separators"
    /\ pc = "limits"
    /\ ei <= Len(line) - 1
    /\ limits' = Append(limits, <<LeftSep(sepsegments, ei, Circular(line)),
                                  RightSep(sepsegments, ei, Circular(line))>>)
    /\ ei' = ei + 1
    /\ UNCHANGED <<points, faces, tracks, conn, side, c1, c2, xmemo, hasS1, hasS2, degen, axial, line, seen, front,
                   intersections, removal, corner, toremove, keptlog, splitlog, pc, op, agenda, passid,
                   result, merges, gi, kept, cutter, li, corners, contrib, groups, segments,
                   bevelvars, cachevars, regvars, parallel, sepsegments>>

\* the loop of line 317 is over
SepLimitsEnd ==
    /\ op = "separators"
    /\ pc = "limits"
    /\ ei > Len(line) - 1
    /\ pc' = "limited"
    /\ UNCHANGED <<points, faces, tracks, conn, side, c1, c2, xmemo, hasS1, hasS2, degen, axial, line, ei, seen, front,
                   intersections, removal, corner, toremove, keptlog, splitlog, op, agenda, passid,
                   result, merges, gi, kept, cutter, li, corners, contrib, groups, segments,
                   bevelvars, cachevars, regvars, sepvars>>

InitSep ==
    /\ InitMesh
    /\ axial = {}
    /\ CacheIdle
    /\ BevelIdle
    /\ cutter = None /\ li = 0 /\ corners = << >> /\ contrib = {} /\ segments = {}
    /\ line \in SepLines
    /\ parallel \in SUBSET SepRange(line)
    /\ sepsegments = << >>
    /\ limits = << >>
    /\ ei = 0
    /\ passid = 0
    /\ op = "separators"
    /\ agenda = << >>
    /\ pc = "separators"
    /\ corner = 0
    /\ toremove = << >>
    /\ keptlog = {}
    /\ intersections = {}
    /\ hasS1 = FALSE /\ hasS2 = FALSE
    /\ c1 = AllIn /\ c2 = AllIn
    /\ side = AllIn
    /\ degen = {}
    /\ front = << >>

NextSep == SepCall \/ SepLimits \/ SepLimitsEnd

SpecSep == InitSep /\ [][NextSep]_vars

(***************************************************************************)
(* cached (io.py, lines 113-226): the wrapper caching of a function        *)
(* def foo(a, b=0), its RAM records (caches, record, lines 270-281) and    *)
(* its pickle files.  A result is <<arguments, date of the source that     *)
(* made it>>; results can be pickled and weakly referenced.                *)
(***************************************************************************)
MaxTime == 3

\* the calls foo(1), foo(1, 0), foo(1, 1)
CallForms == { <<1>>, <<1, 0>>, <<1, 1>> }

\* lines 179-181: the arguments bound to the signature, defaults applied, sorted by name
Bind(c) == IF Len(c) = 1 THEN << <<"a", c[1]>>, <<"b", 0>> >>
           ELSE << <<"a", c[1]>>, <<"b", c[2]>> >>

\* lines 185-186: the file name; md5 is taken as one-to-one on the reprs
Filename(c) == <<"pickle", Bind(c)>>

CacheKeys == {Filename(c) : c \in CallForms}

\* line 210: what obj returns with the source as it is
Generate(c, src) == <<Bind(c), src>>

\* the RAM record is never used
RamHitNever(ram, func_date) == FALSE

\* line 192: ram and ram.date >= func_date
RamHit(ram, func_date) == ram # None /\ ram[1] >= func_date

\* lines 197-205: the file is used, getmtime finds it and it is not older than the source;
\* the files are those that line 214 wrote, which pickle.load reads back
FileHit(f, func_date) == usefile /\ f # None /\ f[1] >= func_date

\* lines 274-281: the record of key is replaced
record(key, date, data) == [caches EXCEPT ![key] = <<date, data>>]

\* what the history keeps of a call
CallLog(c, invoked, res) ==
    [args |-> Bind(c), invoked |-> invoked, result |-> res, ram |-> caches[Filename(c)],
     file |-> cachefiles[Filename(c)], func_date |-> codedate]

\* lines 177-219: a call of the wrapper
Caching(c) ==
    LET key == Filename(c)
        ram == caches[key]
        f   == cachefiles[key]
    IN  /\ IF RamHit(ram, codedate)
           THEN /\ called' = CallLog(c, FALSE, ram[2])
                /\ UNCHANGED <<caches, cachefiles>>
           ELSE IF FileHit(f, codedate)
           THEN /\ called' = CallLog(c, FALSE, f[2])
                /\ caches' = record(key, f[1], f[2])
                /\ UNCHANGED cachefiles
           ELSE /\ called' = CallLog(c, TRUE, Generate(c, codedate))
                /\ cachefiles' = IF usefile
                                 THEN [cachefiles EXCEPT ![key] = <<now, Generate(c, codedate)>>]
                                 ELSE cachefiles
                /\ caches' = record(key, now, Generate(c, codedate))
        /\ UNCHANGED <<usefile, codedate, now>>

\* every variable of cut.py
cutvars == <<points, faces, tracks, conn, side, c1, c2, xmemo, hasS1, hasS2,
             degen, axial, line, ei, seen, front, intersections, removal, corner, toremove, keptlog,
             splitlog, pc, op, agenda, passid, result, merges, gi, kept,
             cutter, li, corners, contrib, groups, segments, bevelvars, sepvars>>

CacheCall == \E c \in CallForms : Caching(c) /\ UNCHANGED <<cutvars, regvars>>

\* line 280: the user code drops the result, the finalizer pops the record
CacheDrop ==
    \E key \in CacheKeys :
        /\ caches[key] # None
        /\ caches' = [caches EXCEPT ![key] = None]
        /\ UNCHANGED <<cachefiles, usefile, codedate, now, called, cutvars, regvars>>

\* the temporary folder (line 272) loses a file
CachePurge ==
    \E key \in CacheKeys :
        /\ cachefiles[key] # None
        /\ cachefiles' = [cachefiles EXCEPT ![key] = None]
        /\ UNCHANGED <<caches, usefile, codedate, now, called, cutvars, regvars>>

\* time passes
CacheTick ==
    /\ now < MaxTime
    /\ now' = now + 1
    /\ UNCHANGED <<caches, cachefiles, usefile, codedate, called, cutvars, regvars>>

\* the source of the function is saved: code_date (lines 283-309) gives the new date
CacheEdit ==
    /\ codedate < now
    /\ codedate' = now
    /\ UNCHANGED <<caches, cachefiles, usefile, now, called, cutvars, regvars>>

InitCache ==
    /\ InitMesh
    /\ axial = {}
    /\ BevelIdle
    /\ SepIdle
    /\ cutter = None /\ li = 0 /\ corners = << >> /\ contrib = {} /\ segments = {}
    /\ line = << >>
    /\ ei = 0
    /\ passid = 0
    /\ op = "cached"
    /\ agenda = << >>
    /\ pc = "idle"
    /\ corner = 0
    /\ toremove = << >>
    /\ keptlog = {}
    /\ intersections = {}
    /\ hasS1 = FALSE /\ hasS2 = FALSE
    /\ c1 = AllIn /\ c2 = AllIn
    /\ side = AllIn
    /\ degen = {}
    /\ front = << >>
    /\ caches = [key \in CacheKeys |-> None]
    /\ cachefiles = [key \in CacheKeys |-> None]
    /\ usefile \in BOOLEAN
    /\ codedate = 0
    /\ now = 0
    /\ called = None
    /\ alive = {} /\ dead = {} /\ finals = {} /\ rec = << >> /\ latest = << >>

NextCache == CacheCall \/ CacheDrop \/ CachePurge \/ CacheTick \/ CacheEdit

SpecCache == InitCache /\ [][NextCache]_vars

(***************************************************************************)
(* The registry io.caches: record() and the finalizers of the recorded     *)
(* objects.  One thread calls record(); the collection of an object, and   *)
(* with it the callback of its finalizers, can come between two statements.*)
(***************************************************************************)
MaxObjects == 3

MaxRecords == 2

\* the objects that are given to record(); they can be weakly referenced
Objects == 1..MaxObjects

\* a record() that leaves the finalizer of the record it replaces
DetachedNever(fs, previous, key) == fs

\* line 277: previous.finalizer.detach(), the finalizer of the replaced record is dead
Detached(fs, previous, key) == fs \ {<<o, key>> : o \in previous}

\* line 280: the callback caches.pop(key) of each finalizer of the object o; the KeyError
\* of a missing key stays in the callback
Popped(cs, fs, o) == [k \in DOMAIN cs |-> IF <<o, k>> \in fs THEN None ELSE cs[k]]

RegFrame == UNCHANGED <<cachefiles, usefile, codedate, now, called, cutvars>>

\* line 217: record(filename, date, result) is called; the caller holds the object
RecordCall ==
    \E key \in CacheKeys, data \in Objects \ dead :
        /\ rec = << >>
        /\ Len(latest[key]) < MaxRecords
        /\ alive' = alive \cup {data}
        /\ rec' = <<"pop", key, data, {}>>
        /\ UNCHANGED <<caches, dead, finals, latest>>
        /\ RegFrame

\* line 276: previous := caches.pop(key, None)
RecordPop ==
    /\ rec # << >>
    /\ rec[1] = "pop"
    /\ LET key == rec[2]
           previous == IF caches[key] # None THEN {caches[key][2]} ELSE {}
       IN  /\ caches' = [caches EXCEPT ![key] = None]
           /\ rec' = <<IF previous # {} THEN "detach" ELSE "store", key, rec[3], previous>>
    /\ UNCHANGED <<alive, dead, finals, latest>>
    /\ RegFrame

\* line 277
RecordDetach ==
    /\ rec # << >>
    /\ rec[1] = "detach"
    /\ finals' = Detached(finals, rec[4], rec[2])
    /\ rec' = <<"store", rec[2], rec[3], rec[4]>>
    /\ UNCHANGED <<caches, alive, dead, latest>>
    /\ RegFrame

\* lines 278-281: the new finalizer and the new record
RecordStore ==
    /\ rec # << >>
    /\ rec[1] = "store"
    /\ finals' = finals \cup {<<rec[3], rec[2]>>}
    /\ caches' = record(rec[2], now, rec[3])
    /\ latest' = [latest EXCEPT ![rec[2]] = Append(@, rec[3])]
    /\ rec' = << >>
    /\ UNCHANGED <<alive, dead>>
    /\ RegFrame

\* an object is collected: its live finalizers run.  The object a running record() was
\* given is held by the caller
Finalize ==
    \E o \in alive :
        /\ IF rec = << >> THEN TRUE ELSE rec[3] # o
        /\ alive' = alive \ {o}
        /\ dead' = dead \cup {o}
        /\ caches' = Popped(caches, finals, o)
        /\ finals' = {f \in finals : f[1] # o}
        /\ UNCHANGED <<rec, latest>>
        /\ RegFrame

InitRegistry ==
    /\ InitMesh
    /\ axial = {}
    /\ BevelIdle
    /\ SepIdle
    /\ cutter = None /\ li = 0 /\ corners = << >> /\ contrib = {} /\ segments = {}
    /\ line = << >>
    /\ ei = 0
    /\ passid = 0
    /\ op = "record"
    /\ agenda = << >>
    /\ pc = "idle"
    /\ corner = 0
    /\ toremove = << >>
    /\ keptlog = {}
    /\ intersections = {}
    /\ hasS1 = FALSE /\ hasS2 = FALSE
    /\ c1 = AllIn /\ c2 = AllIn
    /\ side = AllIn
    /\ degen = {}
    /\ front = << >>
    /\ caches = [key \in CacheKeys |-> None]
    /\ cachefiles = [key \in CacheKeys |-> None]
    /\ usefile = FALSE
    /\ codedate = 0
    /\ now = 0
    /\ called = None
    /\ alive = {} /\ dead = {} /\ finals = {} /\ rec = << >>
    /\ latest = [key \in CacheKeys |-> << >>]

NextRegistry == RecordCall \/ RecordPop \/ RecordDetach \/ RecordStore \/ Finalize

SpecRegistry == InitRegistry /\ [][NextRegistry]_vars

(***************************************************************************)
(* Claims on cut_edge                                                      *)
(***************************************************************************)
NoStaleOwner ==
    \A e \in DOMAIN conn :
        /\ conn[e] \in 1..Len(faces)
        /\ e \in FaceEdgeSet(faces[conn[e]])

\* C1: after every iteration of a cut_edge pass started from connef(mesh.faces), every
\* entry conn[(a,b)] = fi is a directed edge of the face stored in slot fi.
C1_ConnOwnersCurrent == pc \in {"cut_edge", "edge_returned"} => NoStaleOwner

\* a split has replaced a slot and appended two faces, all of them registered
C1_Witness ==
    /\ pc = "cut_edge"
    /\ Len(splitlog) >= 2
    /\ \E e \in DOMAIN conn : conn[e] > Len(MeshFaces)
    /\ \E e \in DOMAIN conn : conn[e] = splitlog[1][1]

\* C4: within one cut_edge pass no slot is split twice and no face appended by a split
\* is split again.
C4_SplitAtMostOnce ==
    \A a, b \in 1..Len(splitlog) :
        a < b => splitlog[b][1] \notin {splitlog[a][1], splitlog[a][2], splitlog[a][3]}

\* two faces were split in the pass and an edge of a child was popped afterwards
C4_Witness ==
    /\ Len(splitlog) >= 2
    /\ pc = "cut_edge"
    /\ front # << >>
    /\ Top(front) \in DOMAIN conn
    /\ conn[Top(front)] \in {splitlog[1][1], splitlog[1][2], splitlog[1][3]}

\* faces not yet seen, three front entries each, plus the front and the return
Measure ==
    3 * Cardinality((1..Len(faces)) \ seen) + Len(front) + (IF pc = "cut_edge" THEN 1 ELSE 0)

\* C5: every cut_edge pass terminates: each iteration, whatever its outcome, strictly
\* decreases a natural number (an unseen face counts for the three edges it can push),
\* so the front is empty after at most Measure iterations and cut_edge returns.
C5_Terminates == [][pc = "cut_edge" => Measure' < Measure]_vars

\* a pass that went through an empty face and a split has returned
C5_Witness ==
    /\ pc = "edge_returned"
    /\ Len(splitlog) >= 1
    /\ \E fi \in seen : EmptyFace(faces, degen, fi) /\ fi \in degen

\* the bound on the front never blocks an iteration
FrontBoundUnused == Len(front) + 2 <= MaxFront

(***************************************************************************)
(* Claims on cut_corner                                                    *)
(***************************************************************************)
\* C2: after each split of cut_corner no entry of the connectivity map names a face
\* that no longer has that directed edge.
C2_CornerOwnersCurrent == pc \in {"cut_corner", "corner_returned"} => NoStaleOwner

NoNone(seg) == seg[1] # NoPoint /\ seg[2] # NoPoint

\* C10: every segment returned by cut_edge or cut_corner is a pair of indices of mesh
\* points, never None.
C10_SegmentsArePoints ==
    /\ pc \in {"cut_edge", "edge_returned"} =>
          \A seg \in intersections :
              NoNone(seg) /\ seg[1] \in 1..Len(points) /\ seg[2] \in 1..Len(points)
    /\ pc \in {"cut_corner", "corner_returned"} =>
          \A n \in 1..Len(intersections) :
              /\ NoNone(intersections[n])
              /\ intersections[n][1] \in 1..Len(points)
              /\ intersections[n][2] \in 1..Len(points)

\* The mesh, the removal set and the intersections
meshvars == <<points, faces, tracks, conn, removal, intersections, toremove>>

AbsentPopped ==
    /\ pc \in {"cut_edge", "cut_corner"}
    /\ front # << >>
    /\ Top(front) \notin DOMAIN conn

Manifold(fs) ==
    \A i, j \in 1..Len(fs) : i # j => FaceEdgeSet(fs[i]) \cap FaceEdgeSet(fs[j]) = {}

C8_MarkedFacesRemoved ==
    [][pc = "merged" /\ pc' = "line_returned" =>
          LET drop == removal \cup {fi \in 1..Len(faces) : EmptyFace(faces, degen, fi)}
              k == KeptIndices(Len(faces), drop)
          IN /\ faces' = [n \in 1..Len(k) |-> faces[k[n]]]
             /\ tracks' = [n \in 1..Len(k) |-> tracks[k[n]]]]_vars

C3_RemovalAfterLastPropagator ==
    [][op = "chamfer" /\ Len(faces') < Len(faces) => agenda = << >>]_vars

\* the ends of the open polylines given to chamfer
OpenEnds ==
    UNION { {ChamferLines[n][1], ChamferLines[n][Len(ChamferLines[n])]} :
            n \in {m \in 1..Len(ChamferLines) :
                      ChamferLines[m][1] # ChamferLines[m][Len(ChamferLines[m])]} }

\* C11: chamfer on open polylines never calls cut_corner for an end vertex of an open
\* polyline.
C11_NoCornerCutAtOpenEnds ==
    [][op = "chamfer" /\ pc # "cut_corner" /\ pc' = "cut_corner" => corner' \notin OpenEnds]_vars

\* C19: when the calls of cut_corner are made, the offset value of every corner is at
\* least the value that each polyline ending at that corner gave for it.
C19_CornerOffsetIsMax ==
    [][op = "chamfer" /\ pc = "setup" /\ pc' = "idle" =>
          \A n \in 1..Len(agenda') :
              agenda'[n][1] = "corner" =>
                  \A c \in contrib : c[1] = agenda'[n][2] => agenda'[n][3] >= c[2]]_vars

\* C17: when chamfer has returned and the cuts gave intersection segments, the mesh
\* has one more group, labelled junction, and faces tracked by that group have been
\* appended, the tracks of the other faces being those of the cut mesh.
C17_JunctionGroupAdded ==
    pc = "chamfer_returned" /\ segments # {} =>
        /\ Len(groups) = Len(MeshGroups) + 1
        /\ groups[Len(groups)] = "junction"
        /\ \E fi \in 1..Len(faces) : tracks[fi] = Len(groups)

(***************************************************************************)
(* Claims on the cutter and on bevel, beveltgt                             *)
(***************************************************************************)
\* the four built-in policies
Builtin == {"width", "distance", "depth", "angle"}

\* a callable, or a tuple that names a built-in policy
Acceptable(c) == c[1] = "callable" \/ (c[1] = "tuple" /\ c[2] \in Builtin)

\* C15: a cutter that is neither a callable nor a tuple naming one of the four built-in
\* policies is rejected by interpretcutter, with TypeError, when it is resolved.
C15_CutterRejected ==
    [][pc = "setup" /\ ~Acceptable(cutter) =>
          pc' = "raised" /\ interpretcutter(cutter)[1] = "TypeError"]_vars

InvalidPending == pc \in {"setup", "raised"} /\ cutter # None /\ ~Acceptable(cutter)

MeshUntouched ==
    /\ points = MeshPoints
    /\ faces = MeshFaces
    /\ tracks = [i \in 1..Len(MeshFaces) |-> i]
    /\ groups = MeshGroups

\* C16: chamfer, bevel and beveltgt called with an invalid cutter fail at setup: the
\* call never leaves the setup but by the exception, and the points, faces, tracks and
\* groups of the mesh are the same after the failed call as before it.
C16_InvalidCutterNoMutation ==
    /\ [](InvalidPending => MeshUntouched)
    /\ [][pc = "setup" /\ ~Acceptable(cutter) =>
             pc' \in {"setup", "raised"} /\ UNCHANGED <<points, faces, tracks, groups>>]_vars

\* bevel has failed on a tuple that names a function of the module which is no policy
C16_Witness ==
    /\ op = "bevel"
    /\ pc = "raised"
    /\ cutter = <<"tuple", "edge">>
    /\ MeshUntouched

\* the surface of the matched curves of edge e is in the mesh, in the junction group
JunctionBuilt(e) ==
    /\ e \in tmatch
    /\ groups[Len(groups)] = "junction"
    /\ \E fi \in 1..Len(faces) : faces[fi] = JunctionFace(e) /\ tracks[fi] = Len(groups)

\* C18: when bevel or beveltgt finds more than two curves for a polyline edge, it
\* reports it and skips the junction of that edge only: the function returns, and the
\* junctions of the edges with two curves are built.
C18_ManyCurvesSkipOneEdge ==
    /\ op \in Bevels
    /\ nsuites # << >>
    /\ pc \in {"raised", "bevel_returned"}
    /\ \E e \in 1..Len(nsuites) : nsuites[e] > 2
    => /\ pc = "bevel_returned"
       /\ \A e \in 1..Len(nsuites) : nsuites[e] > 2 => e \in reported
       /\ \A e \in 1..Len(nsuites) : nsuites[e] = 2 => JunctionBuilt(e)


\* cut_line has taken the separators of every edge
Limited == op = "separators" /\ pc = "limited"

\* the entry of segments appended for the vertex line[i] is the one given
EntryOf(x, i) == x # None /\ x[1] = i

\* C12: in cut_line the k-th edge (line[k-1], line[k]) gets as s1 the entry of separators
\* for the vertex line[k-1] and as s2 the entry for the vertex line[k]; on an open
\* polyline the first edge gets no s1 and the last edge no s2; on a loop the first
\* edge gets as s1 the entry of the closing vertex
C12_EdgeLimits ==
    Limited =>
        LET l == Len(line) - 1 IN
        /\ Len(limits) = l
        /\ \A k \in 1..l :
            /\ IF k >= 2 THEN EntryOf(limits[k][1], k - 1)
               ELSE IF Circular(line) THEN EntryOf(limits[k][1], l)
               ELSE limits[k][1] = None
            /\ IF k < l \/ Circular(line) THEN EntryOf(limits[k][2], k)
               ELSE limits[k][2] = None

\* a loop of four edges has been through cut_line: its first edge has the entry of the
\* closing vertex as s1, its second edge has an inherited separator as s2
C12_Witness ==
    /\ Limited
    /\ Circular(line)
    /\ Len(limits) = 4
    /\ parallel = {2}
    /\ limits[1] = << <<4, 4>>, <<1, 1>> >>
    /\ limits[2] = << <<1, 1>>, <<2, 1>> >>

\* the vertices with a separator of their own
OwnPlane == SepRange(line) \ parallel

Abs(x) == IF x < 0 THEN 0 - x ELSE x

\* index distance along the polyline; around a loop, the shorter way
Along(i, j) == Abs(i - j)
Around(i, j) == IF Abs(i - j) <= Len(line) - 1 - Abs(i - j) THEN Abs(i - j)
                ELSE Len(line) - 1 - Abs(i - j)

\* C13: when separators() has returned and some vertex has a separator of its own, every
\* vertex whose neighbouring offset planes are parallel holds the separator of the
\* vertex with its own separator that is nearest to it in index distance
C13_NearestDefined ==
    Limited /\ OwnPlane # {} =>
        \A j \in parallel :
            \E d \in OwnPlane :
                /\ sepsegments[j][2] = d
                /\ \/ \A e \in OwnPlane : Along(j, d) <= Along(j, e)
                   \/ Circular(line) /\ \A e \in OwnPlane : Around(j, d) <= Around(j, e)

\* C14: for a closed polyline separators() returns one entry per vertex of the loop and
\* no entry is None
C14_LoopAllDefined ==
    Limited /\ Circular(line) =>
        /\ Len(sepsegments) = Len(line) - 1
        /\ \A j \in 1..Len(sepsegments) : sepsegments[j][2] # 0


\* the RAM record or the file that the call found is older than the source
Older(x, func_date) == x # None /\ x[1] < func_date

FreshPopped ==
    /\ pc = "cut_edge"
    /\ front # << >>
    /\ Top(front) \in DOMAIN conn
    /\ conn[Top(front)] \notin seen

PoppedFace == faces[conn[Top(front)]]

EmptyPopped == FreshPopped /\ EmptyFace(faces, degen, conn[Top(front)])

\* the three edges of f, each reversed
ReversedEdges(f) == {<<e[2], e[1]>> : e \in FaceEdgeSet(f)}

\* the front has lost its top and gained the three reversed edges of f
ThreePushed(f) ==
    /\ Len(front') = Len(front) + 2
    /\ SubSeq(front', 1, Len(front) - 1) = Pop(front)
    /\ {front'[n] : n \in Len(front)..(Len(front) + 2)} = ReversedEdges(f)

\* C21: when cut_edge pops an edge whose face has a height of at most prec, the face is
\* marked seen, its three reversed edges are pushed on the front, and the points, the
\* faces, the tracks, the connectivity map, the removal set and the intersections are
\* unchanged
C21_EmptyFacePassedThrough ==
    [][EmptyPopped =>
          /\ seen' = seen \cup {conn[Top(front)]}
          /\ ThreePushed(PoppedFace)
          /\ UNCHANGED <<points, faces, tracks, conn, removal, intersections>>]_vars

\* an empty face of the input mesh has just been passed through: it is seen, it was
\* never split, and its reversed edges are at the top of the front
C21_Witness ==
    /\ op = "cut_edge"
    /\ pc = "cut_edge"
    /\ Len(front) >= 3
    /\ \E fi \in seen :
          /\ fi \in degen
          /\ \A n \in 1..Len(splitlog) : splitlog[n][1] # fi
          /\ {front[n] : n \in (Len(front) - 2)..Len(front)} = ReversedEdges(faces[fi])


\* the axis of the separator crosses the inside of the popped face, which is as in the
\* input mesh, farther than prec from its corners
AxisCrossesPopped ==
    /\ FreshPopped
    /\ hasS1 \/ hasS2
    /\ intersection_axis_face(conn[Top(front)]) # None
    /\ \A n \in 1..Len(splitlog) : splitlog[n][1] # conn[Top(front)]
    /\ ~EmptyFace(faces, degen, conn[Top(front)])

\* C22: when a separator bounds the edge and its axis crosses the inside of the popped
\* face farther than prec from the three corners, cut_edge puts three faces around the
\* crossing point in place of the face (its slot and two appended slots, all registered)
\* and pushes the popped edge again, before the cut plane is looked at: the face is not
\* marked seen and the removal set and the intersections are unchanged
C22_AxisSplitFirst ==
    [][AxisCrossesPopped =>
          LET fi == conn[Top(front)]
              f  == PoppedFace
              l  == Len(faces)
              pi == Len(points) + 1
          IN  /\ Len(points') = Len(points) + 1
              /\ faces' = Append(Append([faces EXCEPT ![fi] = <<f[1], f[2], pi>>],
                                        <<f[2], f[3], pi>>), <<f[3], f[1], pi>>)
              /\ \A e \in FaceEdgeSet(faces'[fi]) : conn'[e] = fi
              /\ \A e \in FaceEdgeSet(faces'[l + 1]) : conn'[e] = l + 1
              /\ \A e \in FaceEdgeSet(faces'[l + 2]) : conn'[e] = l + 2
              /\ front' = front
              /\ UNCHANGED <<seen, removal, intersections>>]_vars


\* the popped face is not empty: cut_edge processes it (line 396)
ProcessedPopped == FreshPopped /\ ~EmptyFace(faces, degen, conn[Top(front)])

\* the point is on the good side of the cut plane: not farther than prec below it
OnGoodSide(p) == side[p] \in {"pos", "onp", "onn"}

\* the point is within the span that the given separators bound
InSpan(p) == (hasS1 => c1[p] \in {"in", "edge"}) /\ (hasS2 => c2[p] \in {"in", "edge"})

\* C23: when no corner of the popped face is on the good side of the cut plane, cut_edge
\* marks the face seen and pops the edge, and nothing else: the points, the faces, the
\* tracks, the connectivity map, the removal set and the intersections are unchanged and
\* no edge is pushed
C23_NoGoodCornerStops ==
    [][ProcessedPopped /\ (\A n \in 1..3 : ~OnGoodSide(PoppedFace[n])) =>
          /\ seen' = seen \cup {conn[Top(front)]}
          /\ front' = Pop(front)
          /\ UNCHANGED <<points, faces, tracks, conn, removal, intersections>>]_vars

\* a face of the input mesh with its three corners under the cut plane has been stopped
C23_Witness ==
    /\ op = "cut_edge"
    /\ \E fi \in seen :
          /\ fi \notin degen
          /\ fi <= Len(MeshFaces)
          /\ faces[fi] = MeshFaces[fi]
          /\ \A n \in 1..3 : side[faces[fi][n]] = "neg"
          /\ fi \notin removal

\* the step of cut_edge changes the face list
SplitStep == pc = "cut_edge" /\ FreshPopped /\ faces' # faces

\* the slots of the three children of the split of the step
Kids == {conn[Top(front)], Len(faces) + 1, Len(faces) + 2}

\* C24: when cut_edge splits the face of slot fi by the cut plane, the face list grows by
\* two: slot fi holds a child, two children are appended, the other slots are as they
\* were, and the three children share the cut point p1, each one an edge with the
\* next; the two appended tracks are the track of slot fi; every edge of the three
\* children is in the connectivity map with a child that holds it as owner; the three
\* slots are marked seen
C24_SplitGrowsByTwo ==
    [][SplitStep =>
          LET fi == conn[Top(front)]
              l  == Len(faces)
          IN  /\ Len(faces') = l + 2
              /\ \A i \in 1..l : i # fi => faces'[i] = faces[i]
              /\ faces'[fi][1] = faces'[l + 1][1]
              /\ faces'[fi][1] = faces'[l + 2][1]
              /\ faces'[fi][3] = faces'[l + 1][2]
              /\ faces'[l + 1][3] = faces'[l + 2][2]
              /\ tracks' = Append(Append(tracks, tracks[fi]), tracks[fi])
              /\ \A k \in Kids : \A e \in FaceEdgeSet(faces'[k]) :
                    /\ e \in DOMAIN conn'
                    /\ conn'[e] \in Kids
                    /\ e \in FaceEdgeSet(faces'[conn'[e]])
              /\ Kids \subseteq seen']_vars

\* a second split of the pass has happened: seven slots became nine
C24_Witness ==
    /\ op = "cut_edge"
    /\ Len(splitlog) = 2
    /\ Len(faces) = Len(MeshFaces) + 4
    /\ Len(tracks) = Len(faces)
    /\ splitlog[2][2] = Len(MeshFaces) + 3
    /\ {splitlog[2][1], splitlog[2][2], splitlog[2][3]} \subseteq seen

\* C25: a split records one segment and marks the discarded side.  The second appended
\* child is (p1, p2, apex).  If the apex is under the cut plane (dot < 0), slot fi and
\* the first appended slot are in the removal set, the second appended slot is not, and
\* the segment is (p2, p1); otherwise only the second appended slot is in the removal
\* set and the segment is (p1, p2).  The marks of the other faces are unchanged
C25_SplitMarksDiscardedSide ==
    [][SplitStep =>
          LET fi   == conn[Top(front)]
              l    == Len(faces)
              p1   == faces'[l + 2][1]
              p2   == faces'[l + 2][2]
              apex == faces'[l + 2][3]
          IN  /\ removal' \ Kids = removal \ Kids
              /\ IF side[apex] \in {"neg", "onn"}
                 THEN /\ removal' \cap Kids = {fi, l + 1}
                      /\ intersections' = intersections \cup {<<p2, p1>>}
                 ELSE /\ removal' \cap Kids = {l + 2}
                      /\ intersections' = intersections \cup {<<p1, p2>>}]_vars

\* a split whose apex is within prec under the cut plane has marked the side opposite
\* to the apex
C25_Witness ==
    /\ op = "cut_edge"
    /\ Len(splitlog) >= 1
    /\ LET e == splitlog[Len(splitlog)]
       IN  /\ side[faces[e[3]][3]] = "onn"
           /\ e[1] \in removal
           /\ e[2] \in removal
           /\ e[3] \notin removal
           /\ <<faces[e[3]][2], faces[e[3]][1]>> \in intersections

\* C26: a face that cut_edge processes, that was not in the removal set and that the
\* step does not split, is in the removal set after the step if and only if its three
\* corners are on the good side of the cut plane and one of them at least is within the
\* span of the separators
C26_WholeFaceRemoval ==
    [][ProcessedPopped /\ conn[Top(front)] \notin removal /\ faces' = faces =>
          (conn[Top(front)] \in removal'
              <=> /\ \A n \in 1..3 : OnGoodSide(PoppedFace[n])
                  /\ \E n \in 1..3 : InSpan(PoppedFace[n]))]_vars

\* with a separator given, a face of the input mesh that has its corners on the good
\* side, one within the span and one beyond the separator, is marked whole
C26_Witness ==
    /\ op = "cut_edge"
    /\ hasS1 \/ hasS2
    /\ \E fi \in seen \cap removal :
          /\ fi <= Len(MeshFaces)
          /\ faces[fi] = MeshFaces[fi]
          /\ \A n \in 1..3 : OnGoodSide(faces[fi][n])
          /\ \E n \in 1..3 : InSpan(faces[fi][n])
          /\ \E n \in 1..3 : ~InSpan(faces[fi][n])


\* the indices of the faces that are not marked, in increasing order
Unmarked == KeptIndices(Len(faces), removal)

C28_FacesTracksParallel == Len(faces) = Len(tracks)

\* a chamfer has split faces at a corner and removed the marked ones, the mesh changed size
C28_Witness ==
    /\ op = "chamfer"
    /\ pc = "chamfer_returned"
    /\ segments # {}
    /\ Len(faces) # Len(MeshFaces)
    /\ Len(faces) = Len(tracks)

\* C29 as stated: in cut_corner, a face slot that a split has designated as the kept
\* side, taking it out of toremove (line 513), is not marked again later in the pass and
\* is not in the removal set when cut_corner returns.
C29_KeptSlotStaysKept ==
    /\ pc = "cut_corner" => keptlog \cap DOMAIN toremove = {}
    /\ pc = "corner_returned" => keptlog \cap removal = {}

\* C29 as the code has it: a slot taken out of toremove can be marked again later in
\* the pass, by line 517 or by a later split that leaves the removed part in it; when
\* cut_corner returns, such a slot is in the removal set only if the face it then holds
\* has no corner farther than prec on the kept side of the plane.
C29_KeptSlotRemovedOnlyInside ==
    pc = "corner_returned" =>
        \A k \in keptlog \cap removal : \A n \in 1..3 : side[faces[k][n]] # "neg"

\* cut_corner has returned with a slot in the removal set that a split had taken out of
\* toremove
C29_Witness ==
    /\ op = "cut_corner"
    /\ pc = "corner_returned"
    /\ keptlog \cap removal # {}

\* the object of the last record() for key
LastRecorded(lt, key) == lt[key][Len(lt[key])]

\* the registry cs holds for each key the last object recorded for it, if that object is
\* alive, and nothing otherwise
RegistryExact(cs, lt, al) ==
    \A key \in CacheKeys :
        /\ cs[key] # None <=> (lt[key] # << >> /\ LastRecorded(lt, key) \in al)
        /\ cs[key] # None => cs[key][2] = LastRecorded(lt, key)

\* C30: for the registry io.caches, whatever the order of the record(key, ...) calls and
\* of the finalizations of the recorded objects: a finalization removes only records of
\* the object that is finalized, never the record of an object recorded later under the
\* key; and when no record() runs, caches[key] is present exactly while the object of
\* the last record() for key is alive.
C30_RegistryFollowsLatest ==
    [][/\ (rec' = << >>) => RegistryExact(caches', latest', alive')
       /\ \A key \in CacheKeys :
             (alive' # alive /\ caches[key] # None /\ caches'[key] = None)
                 => caches[key][2] \in alive \ alive']_vars

\* an object recorded first for a key has been finalized after another one was recorded
\* for the key, and the record of the later one is in the registry
C30_Witness ==
    /\ op = "record"
    /\ rec = << >>
    /\ \E key \in CacheKeys :
          /\ Len(latest[key]) = 2
          /\ latest[key][1] \in dead
          /\ latest[key][2] \in alive
          /\ caches[key] # None
          /\ caches[key][2] = latest[key][2]

====
